---- MODULE Spec2Model ----
(***************************************************************************)
(* A model of clover3: the stateless fan-in channel pool (fan/fan.go) and  *)
(* the SOCKS5 session / framed tunnel handshake / endpoint handler         *)
(* (socks5.go, proxy.go).                                                  *)
(*                                                                         *)
(* The specifications of the module: FanSpec runs the fan-in pool          *)
(* (RedirectFanIn, its workers, the GC routine, the upstream copy tasks    *)
(* and the context waiters); FanTestSpec runs the pool in the scenario of  *)
(* TestBasic; FanLiveSpec runs it within one GC period with its goroutines *)
(* scheduled fairly; SocksSpec runs one SOCKS5 session together with the   *)
(* endpoint handler serving its tunnelled stream, SocksLiveSpec the same   *)
(* with the handlers' returns scheduled fairly; ListenerSpec runs the      *)
(* accept loop of StartProxyClient; AssocSpec runs one UDP association     *)
(* together with the fan-in pool it drives; CodecSpec runs writeIPAndPort  *)
(* and readProxyAddress back to back; FanLockSpec runs the pool with the   *)
(* GC routine's loops under channelmap.mu taken one iteration at a time;   *)
(* RecvBufSpec runs the association's Receiver on datagrams of every       *)
(* length; ReplySpec runs the association's Receiver and Sender with       *)
(* several client addresses; LockOrderSpec runs the pool's goroutines as   *)
(* sequences of lock operations; SupervisorSpec runs main and its service  *)
(* goroutines around exitSig (main.go); TrackConnSpec runs concurrent      *)
(* calls of trackConn.Close (main.go).                                     *)
(***************************************************************************)
EXTENDS Integers, Sequences, FiniteSets, TLC

\* ------------------------------------------------------------------ bounds

\* Datagrams the Receiver hands over, hence worker goroutines; the wrapper a
\* worker creates carries the worker's index.
MaxWorkers == 2

\* Distinct senderIDs the Receiver can report.
NumIDs == 2

\* RedirectionConfig.Timeout, in clock units; also the GC ticker's period.
Timeout == 1

\* Times are kept relative to the present instant: the clock's advance moves
\* every recorded time one unit into the past. time.Now() is therefore 0.
\* Only the lastActive of an open wrapper is aged: nothing reads the
\* lastActive of a closed one but the GC tick, which removes it anyway.
now == 0

\* No guard of the program or of a claim tells apart two idle times beyond
\* this one, so lastActive is not aged further.
IdleCap == 2 * Timeout

\* The value of lastWrite for a wrapper nothing has been written through.
NeverWritten == 1

Workers == 1..MaxWorkers

Wrappers == 1..MaxWorkers

IDs == 1..NumIDs

\* The loop holds at most one buffer, each running worker one.
MaxBufs == MaxWorkers + 1

Bufs == 1..MaxBufs

\* The absent map entry / the nil *channelWrapper.
NoChan == 0

\* ------------------------------------------------------------------- state

VARIABLES
    \* --- fan-in pool (fan/fan.go)
    ctxDone,      \* the pool's / RedirectFanIn's Context is cancelled
    nextTick,     \* when ticker.C fires next
    gcRunning,    \* the GC goroutine has not returned
    channelMap,   \* ActiveChannelPool.channelMap: senderID -> wrapper (0: none)
    lastActive,   \* channelWrapper.lastActive
    lastWrite,    \* when channelWrapper.write or channelSender.Write last
                  \* passed data on for the wrapper (NeverWritten: not yet)
    isclosed,     \* channelWrapper.isclosed
    conn,         \* channelWrapper.connection: "none" | "open" | "closed"
    closeCalls,   \* number of connection.Close() invocations, per wrapper
    upIn,         \* payloads delivered to the upstream peer, not yet answered
    copyPc,       \* the io.Copy goroutine of a wrapper: "none" | "run" | "done"
    waitPc,       \* the <-ctx.Done() goroutine: "none" | "wait" | "done"
    wpc,          \* worker position
    wid,          \* worker's senderID
    wbuf,         \* worker's *bufObj
    wchan,        \* worker's channel variable
    rpc,          \* RedirectFanIn: "top" | "recv" | "returned"
    rret,         \* its return value: "none" | "EOF" | "ctx"
    rbuf,         \* buf of the current iteration
    nrecv,        \* datagrams received so far
    bufFree,      \* buffers sitting in ChannelPool.pool
    bufData,      \* buffer contents (the payload the Receiver stored)
    initCalls,    \* TunnelInitialier invocations, per senderID
    sent,         \* payloads FanInSender was invoked with, per senderID
    idleTicks     \* GC ticks served, each at least Timeout after lastActive,
                  \* since the wrapper was registered or last refreshed (0..2)

fanVars == <<ctxDone, nextTick, gcRunning, channelMap, lastActive, lastWrite,
             isclosed,
             conn, closeCalls, upIn, copyPc, waitPc,
             wpc, wid, wbuf, wchan, rpc, rret, rbuf, nrecv, bufFree,
             bufData, initCalls, sent, idleTicks>>

\* The fields of channelWrapper and its connection.
wrapState == <<lastActive, lastWrite, isclosed, conn, closeCalls>>

\* The upstream peer of each connection.
peerState == <<upIn>>

\* The two goroutines lookupOrCreateChannel spawns per wrapper.
taskState == <<copyPc, waitPc>>

\* The worker goroutines of RedirectFanIn.
workerState == <<wpc, wid, wbuf, wchan>>

\* The receive loop of RedirectFanIn.
loopState == <<rpc, rret, rbuf, nrecv>>

\* ChannelPool.pool and its buffers.
bufState == <<bufFree, bufData>>

\* Invocations of the caller's callbacks.
callState == <<initCalls, sent>>

\* The ticker and the GC goroutine.
clockState == <<nextTick, gcRunning>>

\* The SOCKS5 session, its tunnel and the endpoint handler.
\* ------------------------------------------- SOCKS5 session and tunnel state
\* One accepted SOCKS5 client (the handler goroutine of
\* StartProxyClientWithListener), the tunnelled stream its CONNECT dials
\* through proxyDial, and the handleProxyServer goroutine at the far end.
\* Both ends of the stream are TLS connections: every Write is a record and a
\* Read never crosses a record, so each direction is a queue of records:
\* "req", "ok" and "fail" for the gob messages, "data" for application bytes.

\* Application bytes the client and the destination may each send.
MaxData == 2

Bytes == 0..5

VARIABLES
    spc,          \* the session handler's position
    firstByte,    \* the first byte read from the client (-1: none yet)
    reqRead,      \* readRequest has consumed a request header
    unsupported,  \* that header was well formed but for cmd \notin {1, 3}
    cmd,          \* requestType
    raddr,        \* remoteAddress, by the branch of readProxyAddress taken
    cout,         \* what the client has received: one entry per Write
    clientUp,     \* the client has not closed its connection
    cSent,        \* application bytes the client has sent
    cause,        \* why prepareRelayTCP or ListenUDP failed ("none": not)
    cpUp,         \* io.Copy(remoteConn, session.Conn): "idle" | "run" | "done"
    cpDown,       \* io.Copy(session.Conn, remoteConn): "idle" | "run" | "done"
    udpConn,      \* the UDP socket of ASSOCIATE: "none" | "open" | "closed"
    tunC,         \* client end of the tunnel: "none" | "open" | "closed"
    tunE,         \* endpoint end of the tunnel
    c2e,          \* records in flight, client to endpoint
    e2c,          \* records in flight, endpoint to client
    epc,          \* the endpoint handler's position
    destOpen,     \* remoteConn of the endpoint: "none" | "open" | "closed"
    dSent,        \* application bytes the destination has sent
    dRecv,        \* application bytes the destination has received
    ecpUp,        \* io.Copy(remoteConn, clientconn): "idle" | "run" | "done"
    ecpDown,      \* io.Copy(clientconn, remoteConn): "idle" | "run" | "done"
    reqWritten,   \* requests proxyDial has encoded
    respRead,     \* responses proxyDial has decoded
    reqDecoded,   \* requests the endpoint has decoded
    respWritten,  \* responses the endpoint has encoded
    handshakeAte, \* application records a gob Decode has consumed
    cApp,         \* application records the session's copies have moved
    eApp,         \* application records the endpoint's copies have moved
    rtDone,       \* RuntimeContext has been cancelled
    connCloses,   \* calls of session.Conn.Close()
    eResp,        \* the response the endpoint has encoded: "none" | "ok" | "fail"
    crashed       \* an unrecovered panic has ended the process

sessState == <<spc, firstByte, reqRead, unsupported, cmd, raddr, cause>>
clientState == <<cout, clientUp, cSent>>
spliceState == <<cpUp, cpDown, cApp>>
tunState == <<tunC, tunE, c2e, e2c>>
endState == <<epc, destOpen, dSent, dRecv, ecpUp, ecpDown, eApp>>
frameState == <<reqWritten, respRead, reqDecoded, respWritten, handshakeAte>>

lifeState == <<rtDone, crashed>>

sockVars == <<sessState, clientState, spliceState, udpConn, tunState,
              endState, frameState, lifeState, connCloses, eResp>>

\* ------------------------------------------------ SOCKS5 listener state
\* StartProxyClient: the listener, the goroutine that closes it when
\* RuntimeContext is done, and the accept loop.

\* Clients that connect to the listener.
MaxClients == 3

VARIABLES
    lis,          \* the listener socket: "open" | "closed"
    lisCloses,    \* calls of listener.Close()
    accPc,        \* the accept loop: "top" | "accept" | "returned"
    closerPc,     \* the closing goroutine: "wait" | "done"
    pending,      \* connections waiting in the listener's queue
    accepted,     \* connections Accept has returned (handlers started)
    served        \* handlers that have returned

lisVars == <<lis, lisCloses, accPc, closerPc, pending, accepted, served>>

\* ---------------------------------------------- address codec: its state
\* writeIPAndPort followed by readProxyAddress on the bytes it wrote.

VARIABLES
    cE,           \* the endpoint's net.IP, a tuple of 4 or 16 bytes
    cP,           \* the endpoint's port
    cWire,        \* the bytes writeIPAndPort has written (<<>>: none yet)
    cText         \* what readProxyAddress returned (<<>>: nothing yet)

codecVars == <<cE, cP, cWire, cText>>

\* ------------------------------------- the pool map's lock: its state
\* ActiveChannelPool.channelMap.mu as the GC routine uses it, one step per
\* iteration of its loops over the map.

VARIABLES
    mu,           \* the write lock: "free" | "gc"
    gcPc,         \* the GC routine's select branch: "idle" | "tick" | "ctx"
    gcTodo,       \* senderIDs the range over the map has yet to visit
    gcRemove      \* pendingRemove

muVars == <<mu, gcPc, gcTodo, gcRemove>>

\* ------------------------------------ the UDP Receiver's buffer: its state
\* One buffer of the pool as the Receiver of the association fills and
\* parses it and a worker slices it.

VARIABLES
    dBuf,         \* buf.data, BufferSize bytes
    dN,           \* n, the length ReadFromUDP returned
    dOff,         \* offset, the bytes the Receiver's reader has consumed
    dpc           \* "recv" | "parse" | "slice" | "panic"

recvVars == <<dBuf, dN, dOff, dpc>>

\* -------------------------------- the association's replies: their state
\* The Receiver's and the Sender's shared variable localAddr.

VARIABLES
    localAddr,    \* the sender of the last datagram accepted (0: nil)
    addressedBy,  \* per senderID: the clients that sent a datagram for it
    delivered     \* <<senderID, client>>: a reply of that peer sent to client

replyVars == <<localAddr, addressedBy, delivered>>

\* -------------------------------------------- the supervisor: its state
\* main, its service goroutines and the channel exitSig.

VARIABLES
    mainPc,       \* "select" | "closeRelay" | "deferred" | "exited"
    svcPc,        \* per service: "run" | "send" | "blocked" | "sent" | "panic"
    exitLen,      \* elements in exitSig's buffer
    exitClosed,   \* close(exitSig) has run
    relayClosed   \* relayServer.Close() has run

supVars == <<mainPc, svcPc, exitLen, exitClosed, relayClosed>>

\* --------------------------------------------- trackConn: its state
\* One trackConn and the goroutines that call its Close.

VARIABLES
    tcMu,         \* c.mu: the caller that holds it (0: free)
    tcIsClosed,   \* c.isClosed
    tcFinish,     \* calls of c.tracker.Finish()
    tcConnClose,  \* calls of c.Conn.Close()
    tcPc,         \* per caller: position in Close
    tcRet         \* per caller: what Close returned

tcVars == <<tcMu, tcIsClosed, tcFinish, tcConnClose, tcPc, tcRet>>

\* ----------------------------------------- the pool's locks: their state
\* channelmap.mu (a sync.RWMutex) and the channelWrapper.mu of each wrapper,
\* and the tasks of the pool as sequences of operations on them.

VARIABLES
    lpath,        \* per task: the operations of its current run
    lpc,          \* per task: the next operation (0: not running)
    mapW,         \* channelmap.mu: the task holding it for writing, or NoTask
    mapR,         \* channelmap.mu: the tasks holding it for reading
    mapPend,      \* channelmap.mu: the tasks blocked in Lock()
    wmu           \* per wrapper: the task holding channelWrapper.mu, or NoTask

ordVars == <<lpath, lpc, mapW, mapR, mapPend, wmu>>

\* The state of what runs beside the pool, the session and the listener.
moreVars == <<recvVars, replyVars, supVars, tcVars, ordVars>>

\* For the steps of each of these: the others.
recvRest == <<replyVars, supVars, tcVars, ordVars>>

replyRest == <<recvVars, supVars, tcVars, ordVars>>

supRest == <<recvVars, replyVars, tcVars, ordVars>>

tcRest == <<recvVars, replyVars, supVars, ordVars>>

ordRest == <<recvVars, replyVars, supVars, tcVars>>

extVars == <<codecVars, muVars, moreVars>>

vars == <<fanVars, sockVars, lisVars, extVars>>

\* ------------------------------------------------------- fan-in pool: Init

FanInit ==
    /\ ctxDone = FALSE
    /\ nextTick = Timeout
    /\ gcRunning = TRUE
    /\ channelMap = [i \in IDs |-> NoChan]
    /\ lastActive = [w \in Wrappers |-> 0]
    /\ lastWrite = [w \in Wrappers |-> NeverWritten]
    /\ isclosed = [w \in Wrappers |-> FALSE]
    /\ conn = [w \in Wrappers |-> "none"]
    /\ closeCalls = [w \in Wrappers |-> 0]
    /\ upIn = [w \in Wrappers |-> <<>>]
    /\ copyPc = [w \in Wrappers |-> "none"]
    /\ waitPc = [w \in Wrappers |-> "none"]
    /\ wpc = [k \in Workers |-> "idle"]
    /\ wid = [k \in Workers |-> 0]
    /\ wbuf = [k \in Workers |-> 0]
    /\ wchan = [k \in Workers |-> NoChan]
    /\ rpc = "top"
    /\ rret = "none"
    /\ rbuf = 0
    /\ nrecv = 0
    /\ bufFree = {}
    /\ bufData = [b \in Bufs |-> 0]
    /\ initCalls = [i \in IDs |-> 0]
    /\ sent = [i \in IDs |-> <<>>]
    /\ idleTicks = [w \in Wrappers |-> 0]

SockInit ==
    /\ spc = "auth_ver"
    /\ firstByte = -1
    /\ reqRead = FALSE
    /\ unsupported = FALSE
    /\ cmd = 0
    /\ raddr = "none"
    /\ cout = <<>>
    /\ clientUp = TRUE
    /\ cSent = 0
    /\ cause = "none"
    /\ cpUp = "idle"
    /\ cpDown = "idle"
    /\ udpConn = "none"
    /\ tunC = "none"
    /\ tunE = "none"
    /\ c2e = <<>>
    /\ e2c = <<>>
    /\ epc = "idle"
    /\ destOpen = "none"
    /\ dSent = 0
    /\ dRecv = 0
    /\ ecpUp = "idle"
    /\ ecpDown = "idle"
    /\ reqWritten = 0
    /\ respRead = 0
    /\ reqDecoded = 0
    /\ respWritten = 0
    /\ handshakeAte = 0
    /\ cApp = 0
    /\ eApp = 0
    /\ rtDone = FALSE
    /\ connCloses = 0
    /\ eResp = "none"
    /\ crashed = FALSE

LisInit ==
    /\ lis = "open"
    /\ lisCloses = 0
    /\ accPc = "top"
    /\ closerPc = "wait"
    /\ pending = 0
    /\ accepted = 0
    /\ served = 0

\* No address is being converted.
CodecIdle ==
    /\ cE = <<>>
    /\ cP = 0
    /\ cWire = <<>>
    /\ cText = <<>>

\* spawnGCRoutine has started its goroutine, which waits in its select.
MuInit ==
    /\ mu = "free"
    /\ gcPc = "idle"
    /\ gcTodo = {}
    /\ gcRemove = {}

\* The size of a pooled buffer, RedirectionConfig.BufferSize (65536 in
\* socks5.go, line 238): here just enough for the longest address header the
\* datagrams of the model can spell.
BufferSize == 10

\* A buffer as pool.New makes it.
ZeroBuf == [i \in 1..BufferSize |-> 0]

\* No datagram is being received.
RecvIdle ==
    /\ dBuf = ZeroBuf
    /\ dN = 0
    /\ dOff = 0
    /\ dpc = "recv"

\* Client addresses that send datagrams to the association's socket.
NumClients == 2

Clients == 1..NumClients

\* No datagram has been accepted, no flow opened, no reply sent.
ReplyInit ==
    /\ localAddr = 0
    /\ addressedBy = [i \in IDs |-> {}]
    /\ delivered = {}

\* The services main starts: relay, endpoint, local SOCKS5 listeners.
NumServices == 3

Services == 1..NumServices

\* main has started its services and waits in its select; exitSig is
\* make(chan struct{}, 1).
SupInit ==
    /\ mainPc = "select"
    /\ svcPc = [i \in Services |-> "run"]
    /\ exitLen = 0
    /\ exitClosed = FALSE
    /\ relayClosed = FALSE

\* Goroutines that call Close on the one trackConn.
NumClosers == 3

Closers == 1..NumClosers

\* The trackConn as serveLocalSocks5's Dialer returns it.
TcInit ==
    /\ tcMu = 0
    /\ tcIsClosed = FALSE
    /\ tcFinish = 0
    /\ tcConnClose = 0
    /\ tcPc = [c \in Closers |-> "idle"]
    /\ tcRet = [c \in Closers |-> "none"]

\* The tasks of the pool that take locks: the GC routine, a worker of
\* RedirectFanIn, and the copy task and the context waiter of each wrapper.
LockTasks == {<<"gc", 0>>, <<"worker", 0>>} \cup {<<"copy", w>> : w \in Wrappers}
                                            \cup {<<"wait", w>> : w \in Wrappers}

\* No task: the holder of a free lock.
NoTask == <<"none", 0>>

\* No task is running and no lock is held.
OrdInit ==
    /\ lpath = [t \in LockTasks |-> <<>>]
    /\ lpc = [t \in LockTasks |-> 0]
    /\ mapW = NoTask
    /\ mapR = {}
    /\ mapPend = {}
    /\ wmu = [w \in Wrappers |-> NoTask]

MoreIdle == RecvIdle /\ ReplyInit /\ SupInit /\ TcInit /\ OrdInit

Init == FanInit /\ SockInit /\ LisInit /\ CodecIdle /\ MuInit /\ MoreIdle

\* ------------------------------------------- fan-in pool: channelWrapper

\* A close() that forgets to test isclosed.
ShouldCloseConn_NoGuard(w) == TRUE

\* channelWrapper.close, line 53: the guard of the one connection.Close().
ShouldCloseConn(w) == ~isclosed[w]

\* channelWrapper.close on every wrapper of S (each call runs under the
\* wrapper's mutex, so each is atomic).
closeAll(S) ==
    /\ isclosed' = [w \in Wrappers |-> IF w \in S THEN TRUE ELSE isclosed[w]]
    /\ conn' = [w \in Wrappers |->
                  IF w \in S /\ ShouldCloseConn(w) THEN "closed" ELSE conn[w]]
    /\ closeCalls' = [w \in Wrappers |->
                  IF w \in S /\ ShouldCloseConn(w) THEN closeCalls[w] + 1
                  ELSE closeCalls[w]]

\* An outdated() that allows twice the timeout.
outdated_Twice(w, timeout) == lastActive[w] + 2 * timeout < now

\* A write path that leaves the timestamp alone.
refreshActiveTimestamp_Skip(w) == lastActive

\* channelWrapper.refreshActiveTimestamp: lastActive = time.Now().
refreshActiveTimestamp(w) == [lastActive EXCEPT ![w] = now]

\* channelWrapper.outdated: lastActive.Add(timeout).Before(time.Now()).
outdated(w, timeout) == lastActive[w] + timeout < now

\* ActiveChannelPool.getChannel: the entry of id when it exists and is not closed.
getChannel(id) ==
    IF channelMap[id] # NoChan /\ ~isclosed[channelMap[id]]
    THEN channelMap[id] ELSE NoChan

\* connection.Write and connection.Read succeed on an open connection only.
ConnUsable(w) == conn[w] = "open"

\* The ticker has fired and the GC routine has not yet served the tick.
TickDue == gcRunning /\ now = nextTick

\* ------------------------------------------------- fan-in pool: GC routine

\* The map entries a tick removes (line 131).
GCVictims ==
    {i \in IDs : channelMap[i] # NoChan
                 /\ (isclosed[channelMap[i]] \/ outdated(channelMap[i], Timeout))}

\* spawnGCRoutine, case <-ticker.C: the scan runs under the map's write lock.
\* idleTicks counts, for a registered wrapper the tick leaves open, the ticks
\* served while it was idle for at least Timeout.
GCTick ==
    /\ gcRunning
    /\ now = nextTick
    /\ closeAll({channelMap[i] : i \in GCVictims})
    /\ channelMap' = [i \in IDs |-> IF i \in GCVictims THEN NoChan ELSE channelMap[i]]
    /\ nextTick' = now + Timeout
    /\ idleTicks' = [w \in Wrappers |->
          IF copyPc[w] # "none" /\ ~isclosed[w] /\ w \notin {channelMap[i] : i \in GCVictims}
          THEN (IF now - lastActive[w] < Timeout THEN 0
                ELSE IF idleTicks[w] < 2 THEN idleTicks[w] + 1 ELSE 2)
          ELSE idleTicks[w]]
    /\ UNCHANGED <<ctxDone, gcRunning, lastActive, lastWrite>>
    /\ UNCHANGED <<peerState, taskState, workerState, loopState, bufState, callState>>
    /\ UNCHANGED <<sockVars, lisVars, extVars>>

\* spawnGCRoutine, case <-ctx.Done(): close every wrapper of the map, return.
GCCtxDone ==
    /\ gcRunning
    /\ ctxDone
    /\ closeAll({channelMap[i] : i \in {j \in IDs : channelMap[j] # NoChan}})
    /\ gcRunning' = FALSE
    /\ nextTick' = now
    /\ UNCHANGED <<ctxDone, channelMap, lastActive, lastWrite, idleTicks>>
    /\ UNCHANGED <<peerState, taskState, workerState, loopState, bufState, callState>>
    /\ UNCHANGED <<sockVars, lisVars, extVars>>

\* The clock advances by one unit; a due tick is served before time moves
\* on (the ticker fires every Timeout).
Advance ==
    /\ ~TickDue
    /\ lastActive' = [w \in Wrappers |->
          IF conn[w] # "open" \/ lastActive[w] <= now - IdleCap
          THEN lastActive[w] ELSE lastActive[w] - 1]
    /\ lastWrite' = [w \in Wrappers |->
          IF conn[w] # "open" \/ lastWrite[w] = NeverWritten
                              \/ lastWrite[w] <= now - IdleCap
          THEN lastWrite[w] ELSE lastWrite[w] - 1]
    /\ nextTick' = IF gcRunning THEN nextTick - 1 ELSE nextTick
    /\ UNCHANGED <<ctxDone, gcRunning, channelMap, idleTicks>>
    /\ UNCHANGED <<isclosed, conn, closeCalls>>
    /\ UNCHANGED <<peerState, taskState, workerState, loopState, bufState, callState>>
    /\ UNCHANGED <<sockVars, lisVars, extVars>>

\* The owner of the context cancels it.
Cancel ==
    /\ ~ctxDone
    /\ ctxDone' = TRUE
    /\ UNCHANGED <<clockState, channelMap, idleTicks>>
    /\ UNCHANGED <<wrapState, peerState, taskState, workerState, loopState, bufState,
                   callState>>
    /\ UNCHANGED <<sockVars, lisVars, extVars>>

\* --------------------------------------------- fan-in pool: RedirectFanIn

\* The buffers some task holds or the pool keeps; any other buffer is
\* garbage, and pool.New may hand out its index again.
BufsInUse ==
    bufFree \cup (IF rpc = "recv" THEN {rbuf} ELSE {})
            \cup {wbuf[k] : k \in {j \in Workers : wpc[j] \notin {"idle", "done"}}}

\* A loop that took its buffer once, before the first iteration, and kept it.
GetBuf_Once ==
    IF rbuf \in Bufs THEN rbuf
    ELSE CHOOSE b \in Bufs : \A c \in Bufs : b <= c

\* pool.Get(): a buffer of the pool when it has one, else a new one from
\* pool.New.
GetBuf ==
    IF bufFree # {}
    THEN CHOOSE b \in bufFree : \A c \in bufFree : b <= c
    ELSE CHOOSE b \in Bufs \ BufsInUse : \A c \in Bufs \ BufsInUse : b <= c

\* RedirectFanIn, lines 182-183: the loop condition, then pool.Get(); the
\* loop then blocks in FanInReceiver.
LoopTop ==
    /\ rpc = "top"
    /\ IF ctxDone
       THEN /\ rpc' = "returned"
            /\ rret' = "ctx"
            /\ UNCHANGED <<rbuf, bufFree>>
       ELSE /\ rbuf' = GetBuf
            /\ bufFree' = bufFree \ {GetBuf}
            /\ rpc' = "recv"
            /\ rret' = rret
    /\ UNCHANGED <<nrecv, bufData>>
    /\ UNCHANGED <<ctxDone, clockState, channelMap, idleTicks>>
    /\ UNCHANGED <<wrapState, peerState, taskState, workerState, callState>>
    /\ UNCHANGED <<sockVars, lisVars, extVars>>

\* The payload of the n-th datagram: every datagram carries its own.
Payload(n) == n

\* FanInReceiver returns a datagram of senderID id (line 184) and the loop
\* hands buffer, offsets and id to a new worker goroutine (lines 191-203).
RecvData(id) ==
    /\ rpc = "recv"
    /\ nrecv < MaxWorkers
    /\ nrecv' = nrecv + 1
    /\ bufData' = [bufData EXCEPT ![rbuf] = Payload(nrecv + 1)]
    /\ wpc' = [wpc EXCEPT ![nrecv + 1] = "lookup"]
    /\ wid' = [wid EXCEPT ![nrecv + 1] = id]
    /\ wbuf' = [wbuf EXCEPT ![nrecv + 1] = rbuf]
    /\ rpc' = "top"
    /\ UNCHANGED <<rret, rbuf, bufFree, wchan>>
    /\ UNCHANGED <<ctxDone, clockState, channelMap, idleTicks>>
    /\ UNCHANGED <<wrapState, peerState, taskState, callState>>
    /\ UNCHANGED <<sockVars, lisVars, extVars>>

\* FanInReceiver returns an error that is neither EOF nor unexpected EOF:
\* continue (lines 185-189); the buffer is not put back.
RecvErr ==
    /\ rpc = "recv"
    /\ rpc' = "top"
    /\ UNCHANGED <<rret, rbuf, nrecv, bufState>>
    /\ UNCHANGED <<ctxDone, clockState, channelMap, idleTicks>>
    /\ UNCHANGED <<wrapState, peerState, taskState, workerState, callState>>
    /\ UNCHANGED <<sockVars, lisVars, extVars>>

\* A loop that returns nil when the Receiver meets EOF.
EOFResult_Nil == "none"

\* What RedirectFanIn returns when FanInReceiver returns io.EOF (line 187).
EOFResult == "EOF"

\* FanInReceiver returns io.EOF or io.ErrUnexpectedEOF: return it.
RecvEOF ==
    /\ rpc = "recv"
    /\ rpc' = "returned"
    /\ rret' = EOFResult
    /\ UNCHANGED <<rbuf, nrecv, bufState>>
    /\ UNCHANGED <<ctxDone, clockState, channelMap, idleTicks>>
    /\ UNCHANGED <<wrapState, peerState, taskState, workerState, callState>>
    /\ UNCHANGED <<sockVars, lisVars, extVars>>

\* ----------------------------------- fan-in pool: lookupOrCreateChannel

\* Line 148: channel := channelmap.getChannel(id), under the map's read lock.
WorkerLookup(k) ==
    /\ wpc[k] = "lookup"
    /\ wchan' = [wchan EXCEPT ![k] = getChannel(wid[k])]
    /\ wpc' = [wpc EXCEPT ![k] = "check"]
    /\ UNCHANGED <<wid, wbuf>>
    /\ UNCHANGED <<ctxDone, clockState, channelMap, idleTicks>>
    /\ UNCHANGED <<wrapState, peerState, taskState, loopState, bufState, callState>>
    /\ UNCHANGED <<sockVars, lisVars, extVars>>

\* Lines 149-151: an existing channel that is still not closed is returned;
\* otherwise the worker goes on to the initialiser.
WorkerCheck(k) ==
    /\ wpc[k] = "check"
    /\ IF wchan[k] # NoChan /\ ~isclosed[wchan[k]]
       THEN /\ wpc' = [wpc EXCEPT ![k] = "write"]
            /\ wchan' = wchan
       ELSE /\ wpc' = [wpc EXCEPT ![k] = "init"]
            /\ wchan' = [wchan EXCEPT ![k] = NoChan]
    /\ UNCHANGED <<wid, wbuf>>
    /\ UNCHANGED <<ctxDone, clockState, channelMap, idleTicks>>
    /\ UNCHANGED <<wrapState, peerState, taskState, loopState, bufState, callState>>
    /\ UNCHANGED <<sockVars, lisVars, extVars>>

\* A lookupOrCreateChannel that stores the wrapper before it looks at the
\* initialiser's error.
MapAfterFailedInit_Stored(k) == [channelMap EXCEPT ![wid[k]] = k]

\* Lines 153-155: if err != nil { return nil, err }, before the map is
\* touched.
MapAfterFailedInit(k) == channelMap

\* Lines 152-160: conn, err := initialier(id); on an error the worker logs it
\* and returns (RedirectFanIn, lines 193-196); otherwise the wrapper is built
\* around the new connection with lastActive = time.Now().
WorkerInit(k) ==
    /\ wpc[k] = "init"
    /\ initCalls' = [initCalls EXCEPT ![wid[k]] = @ + 1]
    /\ \E ok \in BOOLEAN :
         IF ok
         THEN /\ conn' = [conn EXCEPT ![k] = "open"]
              /\ lastActive' = [lastActive EXCEPT ![k] = now]
              /\ wpc' = [wpc EXCEPT ![k] = "register"]
              /\ UNCHANGED channelMap
         ELSE /\ wpc' = [wpc EXCEPT ![k] = "done"]
              /\ channelMap' = MapAfterFailedInit(k)
              /\ UNCHANGED <<conn, lastActive>>
    /\ UNCHANGED <<lastWrite, isclosed, closeCalls, wid, wbuf, wchan, sent>>
    /\ UNCHANGED <<ctxDone, clockState, idleTicks>>
    /\ UNCHANGED <<peerState, taskState, loopState, bufState>>
    /\ UNCHANGED <<sockVars, lisVars, extVars>>

\* Lines 161-176: the wrapper is stored in the map under the write lock,
\* the copy goroutine and the context waiter are spawned, the wrapper is
\* returned.
WorkerRegister(k) ==
    /\ wpc[k] = "register"
    /\ channelMap' = [channelMap EXCEPT ![wid[k]] = k]
    /\ copyPc' = [copyPc EXCEPT ![k] = "run"]
    /\ waitPc' = [waitPc EXCEPT ![k] = "wait"]
    /\ wchan' = [wchan EXCEPT ![k] = k]
    /\ wpc' = [wpc EXCEPT ![k] = "write"]
    /\ idleTicks' = [idleTicks EXCEPT ![k] = 0]
    /\ UNCHANGED <<wid, wbuf>>
    /\ UNCHANGED <<ctxDone, clockState>>
    /\ UNCHANGED <<wrapState, peerState, loopState, bufState, callState>>
    /\ UNCHANGED <<sockVars, lisVars, extVars>>

\* A worker closure that reads the loop's buf instead of its own parameter.
WorkerData_LoopBuf(k) == bufData[rbuf]

\* data.data[offset:n] of the worker's own buffer (line 198).
WorkerData(k) == bufData[wbuf[k]]

\* RedirectFanIn, lines 198-202, with channelWrapper.write (lines 39-42):
\* lastActive is refreshed, the payload is written to the connection and,
\* when the write succeeded, the buffer is put back into the pool. The
\* goroutine ends; a buffer that is in no task's hands and not in the pool
\* is garbage, and so is the content of a buffer lying in the pool.
WorkerWrite(k) ==
    /\ wpc[k] = "write"
    /\ lastActive' = refreshActiveTimestamp(wchan[k])
    /\ idleTicks' = [idleTicks EXCEPT ![wchan[k]] = 0]
    /\ IF ConnUsable(wchan[k])
       THEN /\ upIn' = [upIn EXCEPT ![wchan[k]] = Append(@, WorkerData(k))]
            /\ bufFree' = bufFree \cup {wbuf[k]}
            /\ lastWrite' = [lastWrite EXCEPT ![wchan[k]] = now]
       ELSE UNCHANGED <<upIn, bufFree, lastWrite>>
    /\ bufData' = [bufData EXCEPT ![wbuf[k]] = 0]
    /\ wpc' = [wpc EXCEPT ![k] = "done"]
    /\ wbuf' = [wbuf EXCEPT ![k] = 0]
    /\ wchan' = [wchan EXCEPT ![k] = NoChan]
    /\ UNCHANGED <<isclosed, conn, closeCalls, wid>>
    /\ UNCHANGED <<ctxDone, clockState, channelMap>>
    /\ UNCHANGED <<taskState, loopState, callState>>
    /\ UNCHANGED <<sockVars, lisVars, extVars>>

\* ------------------------------- fan-in pool: the goroutines of a wrapper

\* channelSender.ID: the id lookupOrCreateChannel was called with (line 165).
ChannelSenderID(w) == wid[w]

\* The copy goroutine, io.Copy(&channelSender{...}, channel.connection):
\* the peer answers a payload it received by writing it back (the echo peer
\* of TestBasic), io.Copy reads the answer from the connection and hands it
\* to channelSender.Write, which refreshes lastActive and calls
\* FanInSender(data, ID) (lines 107-110).
CopyData(w) ==
    /\ copyPc[w] = "run"
    /\ ConnUsable(w)
    /\ upIn[w] # <<>>
    /\ upIn' = [upIn EXCEPT ![w] = Tail(@)]
    /\ sent' = [sent EXCEPT ![ChannelSenderID(w)] = Append(@, Head(upIn[w]))]
    /\ lastActive' = refreshActiveTimestamp(w)
    /\ lastWrite' = [lastWrite EXCEPT ![w] = now]
    /\ idleTicks' = [idleTicks EXCEPT ![w] = 0]
    /\ UNCHANGED <<isclosed, conn, closeCalls, initCalls>>
    /\ UNCHANGED <<ctxDone, clockState, channelMap>>
    /\ UNCHANGED <<taskState, workerState, loopState, bufState>>
    /\ UNCHANGED <<sockVars, lisVars, extVars>>

\* The copy goroutine: the read fails because the connection has been
\* closed; io.Copy returns and channel.close() runs (line 170).
CopyEnd(w) ==
    /\ copyPc[w] = "run"
    /\ conn[w] = "closed"
    /\ closeAll({w})
    /\ copyPc' = [copyPc EXCEPT ![w] = "done"]
    /\ UNCHANGED <<lastActive, lastWrite, waitPc>>
    /\ UNCHANGED <<ctxDone, clockState, channelMap, idleTicks>>
    /\ UNCHANGED <<peerState, workerState, loopState, bufState, callState>>
    /\ UNCHANGED <<sockVars, lisVars, extVars>>

\* The upstream peer closes its end: the copy goroutine's read meets EOF,
\* io.Copy returns and channel.close() runs (line 170).
CopyEOF(w) ==
    /\ copyPc[w] = "run"
    /\ conn[w] = "open"
    /\ closeAll({w})
    /\ copyPc' = [copyPc EXCEPT ![w] = "done"]
    /\ UNCHANGED <<lastActive, lastWrite, waitPc>>
    /\ UNCHANGED <<ctxDone, clockState, channelMap, idleTicks>>
    /\ UNCHANGED <<peerState, workerState, loopState, bufState, callState>>
    /\ UNCHANGED <<sockVars, lisVars, extVars>>

\* A context waiter that ends without closing the wrapper.
CtxWait_NoClose(w) ==
    /\ waitPc[w] = "wait"
    /\ ctxDone
    /\ waitPc' = [waitPc EXCEPT ![w] = "done"]
    /\ UNCHANGED <<wrapState, copyPc>>
    /\ UNCHANGED <<ctxDone, clockState, channelMap, idleTicks>>
    /\ UNCHANGED <<peerState, workerState, loopState, bufState, callState>>
    /\ UNCHANGED <<sockVars, lisVars, extVars>>

\* The context waiter: <-ctx.Done(); channel.close() (lines 172-175).
CtxWait(w) ==
    /\ waitPc[w] = "wait"
    /\ ctxDone
    /\ closeAll({w})
    /\ waitPc' = [waitPc EXCEPT ![w] = "done"]
    /\ UNCHANGED <<lastActive, lastWrite, copyPc>>
    /\ UNCHANGED <<ctxDone, clockState, channelMap, idleTicks>>
    /\ UNCHANGED <<peerState, workerState, loopState, bufState, callState>>
    /\ UNCHANGED <<sockVars, lisVars, extVars>>

\* ------------------------------------------------ fan-in pool: behaviours

FanNext ==
    \/ GCTick
    \/ GCCtxDone
    \/ Advance
    \/ Cancel
    \/ LoopTop
    \/ \E id \in IDs : RecvData(id)
    \/ RecvErr
    \/ RecvEOF
    \/ \E k \in Workers : WorkerLookup(k)
    \/ \E k \in Workers : WorkerCheck(k)
    \/ \E k \in Workers : WorkerInit(k)
    \/ \E k \in Workers : WorkerRegister(k)
    \/ \E k \in Workers : WorkerWrite(k)
    \/ \E w \in Wrappers : CopyData(w)
    \/ \E w \in Wrappers : CopyEnd(w)
    \/ \E w \in Wrappers : CopyEOF(w)
    \/ \E w \in Wrappers : CtxWait(w)

FanSpec == Init /\ [][FanNext]_vars

\* The pool within one GC period of its creation: no tick is served.
FanCancelNext ==
    \/ GCCtxDone
    \/ Cancel
    \/ LoopTop
    \/ \E id \in IDs : RecvData(id)
    \/ RecvErr
    \/ RecvEOF
    \/ \E k \in Workers : WorkerLookup(k)
    \/ \E k \in Workers : WorkerCheck(k)
    \/ \E k \in Workers : WorkerInit(k)
    \/ \E k \in Workers : WorkerRegister(k)
    \/ \E k \in Workers : WorkerWrite(k)
    \/ \E w \in Wrappers : CopyData(w)
    \/ \E w \in Wrappers : CopyEnd(w)
    \/ \E w \in Wrappers : CopyEOF(w)
    \/ \E w \in Wrappers : CtxWait(w)

\* The goroutines of the pool run: the GC routine takes its ctx.Done()
\* branch once the context is done, a worker that has built a wrapper goes on
\* to register it and spawn its goroutines, and a context waiter runs once
\* the context is done. Nothing is assumed of the Receiver or of the
\* upstream peers.
FanLiveSpec ==
    /\ Init
    /\ [][FanCancelNext]_vars
    /\ WF_vars(GCCtxDone)
    /\ \A k \in Workers : WF_vars(WorkerRegister(k))
    /\ \A w \in Wrappers : WF_vars(CtxWait(w))

\* The scenario of TestBasic: every datagram carries a senderID not seen
\* before, the initialiser succeeds, the upstream peer echoes and never
\* closes, the Receiver returns no transient error and the context is never
\* cancelled.
FanTestNext ==
    \/ GCTick
    \/ Advance
    \/ LoopTop
    \/ \E id \in IDs : RecvData(id) /\ \A k \in Workers : wpc[k] # "idle" => wid[k] # id
    \/ RecvEOF
    \/ \E k \in Workers : WorkerLookup(k)
    \/ \E k \in Workers : WorkerCheck(k)
    \/ \E k \in Workers : WorkerInit(k) /\ conn'[k] = "open"
    \/ \E k \in Workers : WorkerRegister(k)
    \/ \E k \in Workers : WorkerWrite(k)
    \/ \E w \in Wrappers : CopyData(w)
    \/ \E w \in Wrappers : CopyEnd(w)

FanTestSpec == Init /\ [][FanTestNext]_vars

\* ---------------------------------------------------- fan-in pool: claims

\* The workers that have been spawned.
Spawned == {k \in Workers : wpc[k] # "idle"}

\* The wrappers that lookupOrCreateChannel has stored in the map at some time.
Registered == {w \in Wrappers : copyPc[w] # "none"}

\* The open upstream tunnels that were created for senderID id.
OpenTunnels(id) == {w \in Wrappers : conn[w] = "open" /\ wid[w] = id}

InMap(w) == \E i \in IDs : channelMap[i] = w

\* C1: at every instant at most one open upstream tunnel exists that was
\* created for a given senderID (the initialiser is never called for an ID
\* while a live tunnel for it exists).
C1_AtMostOneOpenTunnelPerID ==
    \A id \in IDs : Cardinality(OpenTunnels(id)) <= 1

\* RedirectFanIn has returned, every worker it spawned has finished and no
\* copy goroutine is running.
Quiescent ==
    /\ rpc = "returned"
    /\ \A k \in Spawned : wpc[k] = "done"
    /\ \A w \in Wrappers : copyPc[w] # "run"

C5_IdleTwoPeriodsClosed ==
    \A w \in Registered :
        (/\ ~ctxDone
         /\ ~TickDue
         /\ idleTicks[w] >= 2
         /\ now - lastActive[w] >= 2 * Timeout) => conn[w] = "closed" /\ isclosed[w]

\* C6: a wrapper in the map whose lastActive is at least Timeout in the past
\* is out of the map after at most two GC ticks: no entry is still in the
\* map after two ticks, each served at least Timeout after its lastActive.
C6_RemovedWithinTwoTicks ==
    \A w \in Wrappers : InMap(w) => idleTicks[w] <= 1

\* C6, witness: a wrapper that was exactly Timeout idle at a tick survived
\* it and was closed and removed by the GC routine at the next one.
C6_Witness ==
    \E w \in Wrappers :
        /\ idleTicks[w] = 1
        /\ isclosed[w]
        /\ ~InMap(w)
        /\ copyPc[w] = "run"
        /\ waitPc[w] = "wait"
        /\ ~ctxDone

\* C7: however often and from whichever goroutine close() is called, the
\* connection's Close() runs at most once per wrapper, and isclosed never
\* goes back to false.
C7_CloseIdempotent ==
    /\ [](\A w \in Wrappers : closeCalls[w] <= 1)
    /\ [][\A w \in Wrappers : isclosed[w] => isclosed'[w]]_vars

\* C7, witness: the copy goroutine and the context waiter have both called
\* close() on a wrapper that the GC routine's last sweep closed as well.
C7_Witness ==
    \E w \in Wrappers :
        /\ copyPc[w] = "done"
        /\ waitPc[w] = "done"
        /\ InMap(w)
        /\ ~gcRunning
        /\ closeCalls[w] = 1

\* A GC sweep on ctx.Done() has run and the wrapper w was registered only
\* afterwards; its context waiter has closed it.
ClosedByWaiterAfterSweep(w) ==
    /\ ~gcRunning
    /\ waitPc[w] = "done"
    /\ copyPc[w] = "run"
    /\ conn[w] = "closed"
    /\ isclosed[w]

\* C17: after the pool's context is cancelled every wrapper that has been
\* created, whenever it was or will be registered, is eventually closed
\* (marked closed, its connection closed), and the GC routine exits.
C17_CancelClosesEveryWrapper ==
    /\ \A w \in Wrappers :
          (ctxDone /\ conn[w] = "open") ~> (conn[w] = "closed" /\ isclosed[w])
    /\ ctxDone ~> ~gcRunning

\* C17, witness: the context was cancelled and the GC routine swept and
\* exited while a worker held a wrapper it had not yet registered; the
\* wrapper's own context waiter has closed it.
C17_Witness ==
    /\ ctxDone
    /\ \E w \in Wrappers :
          /\ ClosedByWaiterAfterSweep(w)
          /\ closeCalls[w] = 1

\* Every open wrapper has someone who will close it when the context ends: the
\* worker that is about to spawn its context waiter, or that waiter.
OpenWrapperHasCloser ==
    \A w \in Wrappers :
        conn[w] = "open" => (wpc[w] = "register" \/ waitPc[w] = "wait")

\* C22: RedirectFanIn returns only from the top of its loop with the context
\* done, returning the context's error, or from a receive that met EOF or
\* unexpected EOF, returning that error; a receive that ends otherwise goes
\* back to the top of the loop and, unless it delivered a datagram, leaves
\* every worker as it was.
C22_ReturnsOnlyOnCtxOrEOF ==
    /\ [](rpc = "returned" => rret \in {"EOF", "ctx"})
    /\ [](rret = "ctx" => ctxDone)
    /\ [][(rpc # "returned" /\ rpc' = "returned") =>
             \/ rpc = "top" /\ ctxDone /\ rret' = "ctx"
             \/ rpc = "recv" /\ rret' = "EOF"]_vars
    /\ [][(rpc = "recv" /\ rpc' = "top" /\ nrecv' = nrecv) => wpc' = wpc]_vars
    /\ [][(rpc = "recv" /\ rpc' # "returned") => rpc' \in {"recv", "top"}]_vars

\* C22, witness: RedirectFanIn has returned EOF after it had dispatched
\* workers, with the context not cancelled.
C22_Witness ==
    /\ rpc = "returned"
    /\ rret = "EOF"
    /\ nrecv > 0
    /\ ~ctxDone

\* A step in which the GC routine serves a tick.
TickServed == nextTick' > nextTick

\* C27: a closed wrapper is reachable from the map for at most one more GC
\* tick: while it is in the map the GC routine is running and its next tick
\* is at most one period away, and the tick, once served, leaves no closed
\* wrapper in the map. This is to hold in every reachable state, cancelled
\* context or not.
C27_ClosedGoneAfterOneTick ==
    /\ [](\A w \in Wrappers :
             (InMap(w) /\ isclosed[w]) => (gcRunning /\ nextTick - now <= Timeout))
    /\ [][TickServed => \A w \in Wrappers : isclosed[w] => ~InMap(w)']_vars

\* C28: a GC tick removes a wrapper from the map and closes it exactly when
\* the wrapper is closed or now - lastActive >= Timeout; in particular a
\* wrapper that is not closed and has now - lastActive = Timeout is removed
\* at that tick.
C28_TickRemovesAtTimeout ==
    [][TickServed =>
         \A w \in Wrappers :
            InMap(w) => ((~InMap(w)' /\ isclosed'[w])
                          <=> (isclosed[w] \/ now - lastActive[w] >= Timeout))]_vars

\* C30: a buffer taken from the pool goes back into it, whatever happens: when
\* a receive ends without handing its buffer to a worker, and when a worker
\* ends, the buffer is in the pool.
C30_EveryBufferReturned ==
    /\ [][(rpc = "recv" /\ rpc' # "recv" /\ nrecv' = nrecv) => rbuf \in bufFree']_vars
    /\ [][\A k \in Workers :
            (wpc[k] \notin {"idle", "done"} /\ wpc'[k] = "done") => wbuf[k] \in bufFree']_vars

\* The workers that hold a buffer: started and not yet ended.
Holding == {k \in Workers : wpc[k] \notin {"idle", "done"}}

\* C37: a pooled buffer is never used by two tasks at once: the buffer of a
\* worker that has not ended is not in the pool, is not the buffer the loop
\* has passed to the Receiver, and is not the buffer of another such worker;
\* and the buffer the Receiver is filling is not in the pool.
C37_BufferExclusive ==
    /\ \A k \in Holding :
          /\ wbuf[k] \in Bufs
          /\ wbuf[k] \notin bufFree
          /\ rpc = "recv" => rbuf # wbuf[k]
          /\ \A j \in Holding \ {k} : wbuf[j] # wbuf[k]
    /\ rpc = "recv" => rbuf \notin bufFree

\* The Receiver is filling a buffer while one worker still holds its own and
\* another has put its buffer back into the pool.
C37_Witness ==
    /\ rpc = "recv"
    /\ Holding # {}
    /\ \E j \in Workers : wpc[j] = "done"
    /\ bufFree # {}

\* ------------------------------------------------- SOCKS5 session: actions

\* The largest port: writeIPAndPort writes two bytes of it.
MaxPort == 65535

\* The first twelve bytes of an IPv4 address in its 16-byte form.
V4InV6Prefix == <<0, 0, 0, 0, 0, 0, 0, 0, 0, 0, 255, 255>>

\* net.IP.To4: the four bytes of an IPv4 address, given in four bytes or as
\* an IPv4-mapped address of sixteen; <<>> (nil) for anything else.
To4(ip) ==
    IF Len(ip) = 4 THEN ip
    ELSE IF Len(ip) = 16 /\ SubSeq(ip, 1, 12) = V4InV6Prefix THEN SubSeq(ip, 13, 16)
    ELSE <<>>

\* net.IP.To16: the sixteen-byte form; <<>> (nil) for a wrong length.
To16(ip) ==
    IF Len(ip) = 4 THEN V4InV6Prefix \o ip
    ELSE IF Len(ip) = 16 THEN ip
    ELSE <<>>

\* A writer that sends the port low byte first.
writeIPAndPort_LowByteFirst(ip, port) ==
    (IF To4(ip) # <<>> THEN <<1>> \o To4(ip) ELSE <<4>> \o To16(ip))
        \o <<port % 256, (port \div 256) % 256>>

\* writeIPAndPort, lines 27-48: ATYP 1 and four bytes when To4 yields an
\* address, ATYP 4 and the sixteen bytes of To16 otherwise, then
\* byte(port >> 8), byte(port & 0xff).
writeIPAndPort(ip, port) ==
    (IF To4(ip) # <<>> THEN <<1>> \o To4(ip) ELSE <<4>> \o To16(ip))
        \o <<(port \div 256) % 256, port % 256>>

\* socks5auth, line 104: the method-select reply.
MethodReply == <<5, 0>>

\* prepareRelayTCP, lines 136-148: [5, 0, 0] and the address 127.0.0.1:0.
SuccessReply == <<5, 0, 0>> \o writeIPAndPort(<<127, 0, 0, 1>>, 0)

\* rejectRequest, line 157.
RejectReply == <<5, 3, 0, 1, 0, 0, 0, 0, 0, 0>>

\* Lines 222-229: [5, 0, 0] and the local address of the UDP socket.
UdpReplyBytes == <<5, 0, 0>> \o writeIPAndPort(<<127, 0, 0, 1>>, 1 * 256 + 2)

\* One application byte, as it appears in a Write to the client.
AppData == <<255>>

\* readProxyAddress, lines 57-79: the target by ATYP; any other ATYP leaves
\* the target empty and goes on to the port.
TargetOf(atyp) ==
    CASE atyp = 1 -> "ipv4"
      [] atyp = 3 -> "domain"
      [] atyp = 4 -> "ipv6"
      [] OTHER    -> "empty"

\* A handler that returns without closing the client stream.
SessionClose_Skip(n) == n

\* ClientSession.close, deferred at line 187: one more Close() of the
\* client stream.
SessionClose(n) == n + 1

\* RuntimeContext is cancelled.
AmbientCancel ==
    /\ ~rtDone
    /\ rtDone' = TRUE
    /\ UNCHANGED <<crashed, connCloses, eResp>>
    /\ UNCHANGED <<sessState, clientState, spliceState, udpConn, tunState, endState, frameState>>
    /\ UNCHANGED <<fanVars, lisVars, extVars>>

\* The client closes its connection: from then on the session's reads and
\* writes on it fail.
ClientHangup ==
    /\ clientUp
    /\ spc # "closed"
    /\ clientUp' = FALSE
    /\ UNCHANGED <<cout, cSent>>
    /\ UNCHANGED <<sessState, spliceState, udpConn, tunState, endState, frameState>>
    /\ UNCHANGED <<lifeState, connCloses, eResp>>
    /\ UNCHANGED <<fanVars, lisVars, extVars>>

\* socks5auth, lines 94-97: a read error is returned; a first byte other
\* than 5 returns err, which is nil, so the handler (lines 189-194) goes on
\* to readRequest.
AuthVersion ==
    /\ spc = "auth_ver"
    /\ IF clientUp
       THEN \E b \in Bytes :
                /\ firstByte' = b
                /\ spc' = IF b = 5 THEN "auth_n" ELSE "req_head"
       ELSE /\ firstByte' = firstByte
            /\ spc' = "closed"
    /\ UNCHANGED <<reqRead, unsupported, cmd, raddr, cause>>
    /\ UNCHANGED <<clientState, spliceState, udpConn, tunState, endState, frameState>>
    /\ connCloses' = IF spc' = "closed" THEN SessionClose(connCloses) ELSE connCloses
    /\ UNCHANGED <<lifeState, eResp>>
    /\ UNCHANGED <<fanVars, lisVars, extVars>>

\* socks5auth, lines 98-103: the method count and that many method bytes are
\* read and discarded.
AuthMethods ==
    /\ spc = "auth_n"
    /\ spc' = IF clientUp THEN "auth_reply" ELSE "closed"
    /\ UNCHANGED <<firstByte, reqRead, unsupported, cmd, raddr, cause>>
    /\ UNCHANGED <<clientState, spliceState, udpConn, tunState, endState, frameState>>
    /\ connCloses' = IF spc' = "closed" THEN SessionClose(connCloses) ELSE connCloses
    /\ UNCHANGED <<lifeState, eResp>>
    /\ UNCHANGED <<fanVars, lisVars, extVars>>

\* socks5auth, lines 104-107: Write([5, 0]).
AuthReply ==
    /\ spc = "auth_reply"
    /\ IF clientUp
       THEN /\ cout' = Append(cout, MethodReply)
            /\ spc' = "req_head"
       ELSE /\ cout' = cout
            /\ spc' = "closed"
    /\ UNCHANGED <<firstByte, reqRead, unsupported, cmd, raddr, cause>>
    /\ UNCHANGED <<clientUp, cSent>>
    /\ UNCHANGED <<spliceState, udpConn, tunState, endState, frameState>>
    /\ connCloses' = IF spc' = "closed" THEN SessionClose(connCloses) ELSE connCloses
    /\ UNCHANGED <<lifeState, eResp>>
    /\ UNCHANGED <<fanVars, lisVars, extVars>>

\* readRequest, lines 115-121, and the handler's lines 194-198: three bytes
\* are read; unless they are [5, 1 or 3, 0] readRequest returns an error and
\* the handler logs it and returns.
ReadRequestHead ==
    /\ spc = "req_head"
    /\ IF clientUp
       THEN \E v \in Bytes, c \in Bytes, r \in Bytes :
                /\ reqRead' = TRUE
                /\ IF v = 5 /\ c \in {1, 3} /\ r = 0
                   THEN /\ cmd' = c
                        /\ unsupported' = FALSE
                        /\ spc' = "req_addr"
                   ELSE /\ cmd' = cmd
                        /\ unsupported' = (v = 5 /\ r = 0)
                        /\ spc' = "closed"
       ELSE /\ spc' = "closed"
            /\ UNCHANGED <<reqRead, unsupported, cmd>>
    /\ UNCHANGED <<firstByte, raddr, cause>>
    /\ UNCHANGED <<clientState, spliceState, udpConn, tunState, endState, frameState>>
    /\ connCloses' = IF spc' = "closed" THEN SessionClose(connCloses) ELSE connCloses
    /\ UNCHANGED <<lifeState, eResp>>
    /\ UNCHANGED <<fanVars, lisVars, extVars>>

\* readRequest, lines 123-127, and the switch of line 200.
ReadRequestAddr ==
    /\ spc = "req_addr"
    /\ IF clientUp
       THEN \E atyp \in Bytes :
                /\ raddr' = TargetOf(atyp)
                /\ spc' = IF cmd = 1 THEN "dial" ELSE "udp_listen"
       ELSE /\ raddr' = raddr
            /\ spc' = "closed"
    /\ UNCHANGED <<firstByte, reqRead, unsupported, cmd, cause>>
    /\ UNCHANGED <<clientState, spliceState, udpConn, tunState, endState, frameState>>
    /\ connCloses' = IF spc' = "closed" THEN SessionClose(connCloses) ELSE connCloses
    /\ UNCHANGED <<lifeState, eResp>>
    /\ UNCHANGED <<fanVars, lisVars, extVars>>

\* proxyDial, lines 27-33: dialer.Dial(channel); on success the endpoint's
\* accept loop hands the stream to a handler goroutine.
ProxyDialConnect ==
    /\ spc = "dial"
    /\ \E ok \in BOOLEAN :
          IF ok
          THEN /\ tunC' = "open"
               /\ tunE' = "open"
               /\ epc' = "decode"
               /\ spc' = "encode"
               /\ cause' = cause
          ELSE /\ spc' = "reject"
               /\ cause' = "dial"
               /\ UNCHANGED <<tunC, tunE, epc>>
    /\ UNCHANGED <<firstByte, reqRead, unsupported, cmd, raddr>>
    /\ UNCHANGED <<c2e, e2c>>
    /\ UNCHANGED <<destOpen, dSent, dRecv, ecpUp, ecpDown, eApp>>
    /\ UNCHANGED <<clientState, spliceState, udpConn, frameState>>
    /\ connCloses' = IF spc' = "closed" THEN SessionClose(connCloses) ELSE connCloses
    /\ UNCHANGED <<lifeState, eResp>>
    /\ UNCHANGED <<fanVars, lisVars, extVars>>

\* A proxyDial that leaves the connection open when the handshake fails.
HandshakeConn_Leak(ok) == "open"

\* proxyDial, lines 35-41: the deferred function closes the connection
\* unless the handshake succeeded.
HandshakeConn(ok) == IF ok THEN "open" ELSE "closed"

\* proxyDial, lines 43-46: the request is encoded onto the stream.
ProxyDialEncode ==
    /\ spc = "encode"
    /\ \E ok \in BOOLEAN :
          /\ tunC' = HandshakeConn(ok)
          /\ IF ok
             THEN /\ c2e' = Append(c2e, "req")
                  /\ reqWritten' = reqWritten + 1
                  /\ spc' = "decode"
                  /\ cause' = cause
             ELSE /\ spc' = "reject"
                  /\ cause' = "encode"
                  /\ UNCHANGED <<c2e, reqWritten>>
    /\ UNCHANGED <<firstByte, reqRead, unsupported, cmd, raddr>>
    /\ UNCHANGED <<tunE, e2c>>
    /\ UNCHANGED <<respRead, reqDecoded, respWritten, handshakeAte>>
    /\ UNCHANGED <<clientState, spliceState, udpConn, endState>>
    /\ connCloses' = IF spc' = "closed" THEN SessionClose(connCloses) ELSE connCloses
    /\ UNCHANGED <<lifeState, eResp>>
    /\ UNCHANGED <<fanVars, lisVars, extVars>>

\* A proxyDial that does not look at Success.
RespAccepted_Any(h) == h \in {"ok", "fail"}

\* proxyDial, line 53: a decoded response is accepted when Success is set.
RespAccepted(h) == h = "ok"

\* proxyDial, lines 48-59: the decoder takes the next record; anything but a
\* response with Success set is an error.
ProxyDialDecode ==
    /\ spc = "decode"
    /\ e2c # <<>> \/ tunE = "closed"
    /\ IF e2c # <<>>
       THEN LET h == Head(e2c) IN
            /\ e2c' = Tail(e2c)
            /\ respRead' = respRead + (IF h \in {"ok", "fail"} THEN 1 ELSE 0)
            /\ handshakeAte' = handshakeAte + (IF h = "data" THEN 1 ELSE 0)
            /\ tunC' = HandshakeConn(RespAccepted(h))
            /\ spc' = IF RespAccepted(h) THEN "reply" ELSE "reject"
            /\ cause' = IF RespAccepted(h) THEN cause
                        ELSE IF h = "fail" THEN "remote" ELSE "decode"
       ELSE /\ tunC' = HandshakeConn(FALSE)
            /\ spc' = "reject"
            /\ cause' = "decode"
            /\ UNCHANGED <<e2c, respRead, handshakeAte>>
    /\ UNCHANGED <<firstByte, reqRead, unsupported, cmd, raddr>>
    /\ UNCHANGED <<tunE, c2e>>
    /\ UNCHANGED <<reqWritten, reqDecoded, respWritten>>
    /\ UNCHANGED <<clientState, spliceState, udpConn, endState>>
    /\ connCloses' = IF spc' = "closed" THEN SessionClose(connCloses) ELSE connCloses
    /\ UNCHANGED <<lifeState, eResp>>
    /\ UNCHANGED <<fanVars, lisVars, extVars>>

\* prepareRelayTCP, lines 135-153: the success reply is written to the
\* client; if that fails the tunnel connection is closed and the error
\* returned.
RelayReply ==
    /\ spc = "reply"
    /\ IF clientUp
       THEN /\ cout' = Append(cout, SuccessReply)
            /\ spc' = "splice"
            /\ cpUp' = "run"
            /\ cpDown' = "run"
            /\ UNCHANGED <<tunC, cause>>
       ELSE /\ tunC' = "closed"
            /\ cause' = "client"
            /\ spc' = "reject"
            /\ cout' = cout
            /\ UNCHANGED <<cpUp, cpDown>>
    /\ UNCHANGED <<firstByte, reqRead, unsupported, cmd, raddr>>
    /\ UNCHANGED <<clientUp, cSent>>
    /\ UNCHANGED <<tunE, c2e, e2c>>
    /\ UNCHANGED <<cApp, udpConn, endState, frameState>>
    /\ connCloses' = IF spc' = "closed" THEN SessionClose(connCloses) ELSE connCloses
    /\ UNCHANGED <<lifeState, eResp>>
    /\ UNCHANGED <<fanVars, lisVars, extVars>>

\* Lines 203-206 and 218-221: rejectRequest(), then the handler returns and
\* the deferred session.close() runs.
RejectRequest ==
    /\ spc = "reject"
    /\ cout' = IF clientUp THEN Append(cout, RejectReply) ELSE cout
    /\ spc' = "closed"
    /\ UNCHANGED <<firstByte, reqRead, unsupported, cmd, raddr, cause>>
    /\ UNCHANGED <<clientUp, cSent>>
    /\ UNCHANGED <<spliceState, udpConn, tunState, endState, frameState>>
    /\ connCloses' = IF spc' = "closed" THEN SessionClose(connCloses) ELSE connCloses
    /\ UNCHANGED <<lifeState, eResp>>
    /\ UNCHANGED <<fanVars, lisVars, extVars>>

\* Line 209: io.Copy(session.Conn, remoteConn). A record from the tunnel is
\* written to the client; the copy ends on the tunnel's EOF or when the write
\* fails.
SpliceDown ==
    /\ spc = "splice"
    /\ cpDown = "run"
    /\ e2c # <<>> \/ tunE = "closed"
    /\ IF e2c # <<>>
       THEN /\ e2c' = Tail(e2c)
            /\ IF clientUp
               THEN /\ cout' = Append(cout, AppData)
                    /\ cApp' = cApp + 1
                    /\ cpDown' = cpDown
               ELSE /\ cpDown' = "done"
                    /\ UNCHANGED <<cout, cApp>>
       ELSE /\ cpDown' = "done"
            /\ UNCHANGED <<e2c, cout, cApp>>
    /\ UNCHANGED <<clientUp, cSent, cpUp>>
    /\ UNCHANGED <<tunC, tunE, c2e>>
    /\ UNCHANGED <<sessState, udpConn, endState, frameState>>
    /\ UNCHANGED <<lifeState, connCloses, eResp>>
    /\ UNCHANGED <<fanVars, lisVars, extVars>>

\* Line 210: io.Copy(remoteConn, session.Conn). A byte the client sends is
\* written to the tunnel; the copy ends when the client has closed or the
\* write fails.
SpliceUp ==
    /\ spc = "splice"
    /\ cpUp = "run"
    /\ IF clientUp
       THEN /\ cSent < MaxData
            /\ cSent' = cSent + 1
            /\ IF tunE = "open"
               THEN /\ c2e' = Append(c2e, "data")
                    /\ cApp' = cApp + 1
                    /\ cpUp' = cpUp
               ELSE /\ cpUp' = "done"
                    /\ UNCHANGED <<c2e, cApp>>
       ELSE /\ cpUp' = "done"
            /\ UNCHANGED <<cSent, c2e, cApp>>
    /\ UNCHANGED <<cout, clientUp, cpDown>>
    /\ UNCHANGED <<tunC, tunE, e2c>>
    /\ UNCHANGED <<sessState, udpConn, endState, frameState>>
    /\ UNCHANGED <<lifeState, connCloses, eResp>>
    /\ UNCHANGED <<fanVars, lisVars, extVars>>

\* A handler that does not wait for ctx.Done().
SpliceOver_NoWait == TRUE

\* A handler whose ctx does not descend from RuntimeContext.
SpliceOver_NoCtx == cpUp = "done" \/ cpDown = "done"

\* Lines 208-211: ctx, a child of RuntimeContext, is done once either copy
\* goroutine has called cancelFn or RuntimeContext has been cancelled.
SpliceOver == cpUp = "done" \/ cpDown = "done" \/ rtDone

\* Line 211 with the deferred calls of lines 207 and 187: once either copy
\* has ended the handler returns, closing the tunnel and the client.
SpliceEnd ==
    /\ spc = "splice"
    /\ SpliceOver
    /\ tunC' = "closed"
    /\ spc' = "closed"
    /\ UNCHANGED <<firstByte, reqRead, unsupported, cmd, raddr, cause>>
    /\ UNCHANGED <<tunE, c2e, e2c>>
    /\ UNCHANGED <<clientState, spliceState, udpConn, endState, frameState>>
    /\ connCloses' = IF spc' = "closed" THEN SessionClose(connCloses) ELSE connCloses
    /\ UNCHANGED <<lifeState, eResp>>
    /\ UNCHANGED <<fanVars, lisVars, extVars>>

\* Line 210 after the handler has returned: session.Conn is closed, the
\* copy's Read fails and the goroutine ends.
SpliceUpAborted ==
    /\ spc = "closed"
    /\ cpUp = "run"
    /\ cpUp' = "done"
    /\ UNCHANGED <<cpDown, cApp>>
    /\ UNCHANGED <<sessState, clientState, udpConn, tunState, endState, frameState>>
    /\ UNCHANGED <<lifeState, connCloses, eResp>>
    /\ UNCHANGED <<fanVars, lisVars, extVars>>

\* Line 209 after the handler has returned: remoteConn is closed, the copy's
\* Read fails and the goroutine ends.
SpliceDownAborted ==
    /\ spc = "closed"
    /\ cpDown = "run"
    /\ cpDown' = "done"
    /\ UNCHANGED <<cpUp, cApp>>
    /\ UNCHANGED <<sessState, clientState, udpConn, tunState, endState, frameState>>
    /\ UNCHANGED <<lifeState, connCloses, eResp>>
    /\ UNCHANGED <<fanVars, lisVars, extVars>>

\* Lines 213-221: net.ListenUDP.
UdpListen ==
    /\ spc = "udp_listen"
    /\ \E ok \in BOOLEAN :
          IF ok
          THEN /\ udpConn' = "open"
               /\ spc' = "udp_reply"
               /\ cause' = cause
          ELSE /\ udpConn' = udpConn
               /\ spc' = "reject"
               /\ cause' = "udp"
    /\ UNCHANGED <<firstByte, reqRead, unsupported, cmd, raddr>>
    /\ UNCHANGED <<clientState, spliceState, tunState, endState, frameState>>
    /\ connCloses' = IF spc' = "closed" THEN SessionClose(connCloses) ELSE connCloses
    /\ UNCHANGED <<lifeState, eResp>>
    /\ UNCHANGED <<fanVars, lisVars, extVars>>

\* Lines 222-229: the reply with the socket's address; the result of
\* WriteTo is not looked at.
UdpReply ==
    /\ spc = "udp_reply"
    /\ cout' = IF clientUp THEN Append(cout, UdpReplyBytes) ELSE cout
    /\ spc' = "udp_active"
    /\ UNCHANGED <<firstByte, reqRead, unsupported, cmd, raddr, cause>>
    /\ UNCHANGED <<clientUp, cSent>>
    /\ UNCHANGED <<spliceState, udpConn, tunState, endState, frameState>>
    /\ connCloses' = IF spc' = "closed" THEN SessionClose(connCloses) ELSE connCloses
    /\ UNCHANGED <<lifeState, eResp>>
    /\ UNCHANGED <<fanVars, lisVars, extVars>>

\* Lines 230-280: the association lasts until conn.Read returns (a byte from
\* the client, or its EOF); then the socket is closed, serveContext is
\* cancelled, RedirectFanIn returns and the handler with it.
UdpEnd ==
    /\ spc = "udp_active"
    /\ udpConn' = "closed"
    /\ spc' = "closed"
    /\ UNCHANGED <<firstByte, reqRead, unsupported, cmd, raddr, cause>>
    /\ UNCHANGED <<clientState, spliceState, tunState, endState, frameState>>
    /\ connCloses' = IF spc' = "closed" THEN SessionClose(connCloses) ELSE connCloses
    /\ UNCHANGED <<lifeState, eResp>>
    /\ UNCHANGED <<fanVars, lisVars, extVars>>

\* ------------------------------------------------ endpoint handler: actions

\* A handler that forgets its deferred Close().
DeferredClose_Skip(c) == c

\* The deferred Close() of lines 70 and 81: an open connection is closed
\* when the handler returns.
DeferredClose(c) == IF c = "open" THEN "closed" ELSE c

\* handleProxyServer, lines 71-75: the request is decoded; on an error the
\* "invaild format" response is encoded and the handler returns, closing the
\* stream.
EndpointDecode ==
    /\ epc = "decode"
    /\ c2e # <<>> \/ tunC = "closed"
    /\ IF c2e # <<>> /\ Head(c2e) = "req"
       THEN /\ c2e' = Tail(c2e)
            /\ reqDecoded' = reqDecoded + 1
            /\ epc' = "dial"
            /\ UNCHANGED <<tunE, e2c, respWritten, handshakeAte, eResp>>
       ELSE /\ c2e' = IF c2e # <<>> THEN Tail(c2e) ELSE c2e
            /\ handshakeAte' = handshakeAte + (IF c2e # <<>> THEN 1 ELSE 0)
            /\ IF tunC = "open"
               THEN e2c' = Append(e2c, "fail") /\ respWritten' = respWritten + 1
               ELSE UNCHANGED <<e2c, respWritten>>
            /\ eResp' = "fail"
            /\ tunE' = DeferredClose(tunE)
            /\ epc' = "closed"
            /\ reqDecoded' = reqDecoded
    /\ UNCHANGED <<destOpen, dSent, dRecv, ecpUp, ecpDown, eApp>>
    /\ UNCHANGED <<tunC, reqWritten, respRead>>
    /\ UNCHANGED <<sessState, clientState, spliceState, udpConn>>
    /\ UNCHANGED <<lifeState, connCloses>>
    /\ UNCHANGED <<fanVars, lisVars, extVars>>

\* Lines 76-80: net.DialTimeout; on an error the failure response is encoded
\* and the handler returns.
EndpointDial ==
    /\ epc = "dial"
    /\ \E ok \in BOOLEAN :
          IF ok
          THEN /\ destOpen' = "open"
               /\ epc' = "respond"
               /\ UNCHANGED <<tunE, e2c, respWritten, eResp>>
          ELSE /\ IF tunC = "open"
                  THEN e2c' = Append(e2c, "fail") /\ respWritten' = respWritten + 1
                  ELSE UNCHANGED <<e2c, respWritten>>
               /\ eResp' = "fail"
               /\ tunE' = DeferredClose(tunE)
               /\ epc' = "closed"
               /\ destOpen' = destOpen
    /\ UNCHANGED <<dSent, dRecv, ecpUp, ecpDown, eApp>>
    /\ UNCHANGED <<tunC, c2e, reqWritten, respRead, reqDecoded, handshakeAte>>
    /\ UNCHANGED <<sessState, clientState, spliceState, udpConn>>
    /\ UNCHANGED <<lifeState, connCloses>>
    /\ UNCHANGED <<fanVars, lisVars, extVars>>

\* Lines 81-85: the success response is encoded; if that fails the handler
\* returns and the deferred calls close both connections.
EndpointRespond ==
    /\ epc = "respond"
    /\ eResp' = "ok"
    /\ \E ok \in (IF tunC = "open" THEN BOOLEAN ELSE {FALSE}) :
          IF ok
          THEN /\ e2c' = Append(e2c, "ok")
               /\ respWritten' = respWritten + 1
               /\ epc' = "splice"
               /\ ecpUp' = "run"
               /\ ecpDown' = "run"
               /\ UNCHANGED <<tunE, destOpen>>
          ELSE /\ tunE' = DeferredClose(tunE)
               /\ destOpen' = DeferredClose(destOpen)
               /\ epc' = "closed"
               /\ UNCHANGED <<e2c, respWritten, ecpUp, ecpDown>>
    /\ UNCHANGED <<dSent, dRecv, eApp>>
    /\ UNCHANGED <<tunC, c2e, reqWritten, respRead, reqDecoded, handshakeAte>>
    /\ UNCHANGED <<sessState, clientState, spliceState, udpConn>>
    /\ UNCHANGED <<lifeState, connCloses>>
    /\ UNCHANGED <<fanVars, lisVars, extVars>>

\* A handler that starts its copy goroutines before it encodes the response.
CopyStarted_Early == epc \in {"respond", "splice"}

\* Lines 82-87: the copy goroutines are started after the response has been
\* encoded.
CopyStarted == epc = "splice"

\* Line 86: io.Copy(clientconn, remoteConn). A byte the destination sends is
\* written to the tunnel; the copy ends when the destination closes or the
\* write fails.
EndpointCopyDown ==
    /\ CopyStarted
    /\ ecpDown # "done"
    /\ destOpen = "open"
    /\ \/ /\ dSent < MaxData
          /\ dSent' = dSent + 1
          /\ IF tunC = "open"
             THEN /\ e2c' = Append(e2c, "data")
                  /\ eApp' = eApp + 1
                  /\ ecpDown' = ecpDown
             ELSE /\ ecpDown' = "done"
                  /\ UNCHANGED <<e2c, eApp>>
       \/ /\ ecpDown' = "done"
          /\ UNCHANGED <<dSent, e2c, eApp>>
    /\ UNCHANGED <<epc, destOpen, dRecv, ecpUp>>
    /\ UNCHANGED <<tunC, tunE, c2e>>
    /\ UNCHANGED <<sessState, clientState, spliceState, udpConn, frameState>>
    /\ UNCHANGED <<lifeState, connCloses, eResp>>
    /\ UNCHANGED <<fanVars, lisVars, extVars>>

\* Line 87: io.Copy(remoteConn, clientconn). A record from the tunnel is
\* written to the destination; the copy ends on the tunnel's EOF.
EndpointCopyUp ==
    /\ CopyStarted
    /\ ecpUp # "done"
    /\ destOpen = "open"
    /\ c2e # <<>> \/ tunC = "closed"
    /\ IF c2e # <<>>
       THEN /\ c2e' = Tail(c2e)
            /\ dRecv' = dRecv + 1
            /\ eApp' = eApp + 1
            /\ ecpUp' = ecpUp
       ELSE /\ ecpUp' = "done"
            /\ UNCHANGED <<c2e, dRecv, eApp>>
    /\ UNCHANGED <<epc, destOpen, dSent, ecpDown>>
    /\ UNCHANGED <<tunC, tunE, e2c>>
    /\ UNCHANGED <<sessState, clientState, spliceState, udpConn, frameState>>
    /\ UNCHANGED <<lifeState, connCloses, eResp>>
    /\ UNCHANGED <<fanVars, lisVars, extVars>>

\* Line 88 with the deferred calls of lines 81 and 70: once either copy has
\* ended the handler returns, closing the destination and the stream.
EndpointEnd ==
    /\ epc = "splice"
    /\ ecpUp = "done" \/ ecpDown = "done"
    /\ destOpen' = DeferredClose(destOpen)
    /\ tunE' = DeferredClose(tunE)
    /\ epc' = "closed"
    /\ UNCHANGED <<dSent, dRecv, ecpUp, ecpDown, eApp>>
    /\ UNCHANGED <<tunC, c2e, e2c>>
    /\ UNCHANGED <<sessState, clientState, spliceState, udpConn, frameState>>
    /\ UNCHANGED <<lifeState, connCloses, eResp>>
    /\ UNCHANGED <<fanVars, lisVars, extVars>>

\* Line 87 after the handler has returned: clientconn is closed, the copy's
\* Read fails and the goroutine ends.
EndpointUpAborted ==
    /\ epc = "closed"
    /\ ecpUp = "run"
    /\ ecpUp' = "done"
    /\ UNCHANGED <<epc, destOpen, dSent, dRecv, ecpDown, eApp>>
    /\ UNCHANGED <<sessState, clientState, spliceState, udpConn, tunState, frameState>>
    /\ UNCHANGED <<lifeState, connCloses, eResp>>
    /\ UNCHANGED <<fanVars, lisVars, extVars>>

\* Line 86 after the handler has returned: remoteConn is closed, the copy's
\* Read fails and the goroutine ends.
EndpointDownAborted ==
    /\ epc = "closed"
    /\ ecpDown = "run"
    /\ ecpDown' = "done"
    /\ UNCHANGED <<epc, destOpen, dSent, dRecv, ecpUp, eApp>>
    /\ UNCHANGED <<sessState, clientState, spliceState, udpConn, tunState, frameState>>
    /\ UNCHANGED <<lifeState, connCloses, eResp>>
    /\ UNCHANGED <<fanVars, lisVars, extVars>>

SocksNext ==
    \/ AmbientCancel
    \/ ClientHangup
    \/ AuthVersion
    \/ AuthMethods
    \/ AuthReply
    \/ ReadRequestHead
    \/ ReadRequestAddr
    \/ ProxyDialConnect
    \/ ProxyDialEncode
    \/ ProxyDialDecode
    \/ RelayReply
    \/ RejectRequest
    \/ SpliceDown
    \/ SpliceUp
    \/ SpliceEnd
    \/ SpliceUpAborted
    \/ SpliceDownAborted
    \/ UdpListen
    \/ UdpReply
    \/ UdpEnd
    \/ EndpointDecode
    \/ EndpointDial
    \/ EndpointRespond
    \/ EndpointCopyDown
    \/ EndpointCopyUp
    \/ EndpointEnd
    \/ EndpointUpAborted
    \/ EndpointDownAborted

SocksSpec == Init /\ [][SocksNext]_vars

\* The handlers and the copy goroutines are goroutines of a running
\* program: a return or a failing Read that stays possible happens. Nothing
\* is assumed of the client, the destination or the network.
SocksLiveSpec ==
    /\ SocksSpec
    /\ WF_vars(SpliceEnd)
    /\ WF_vars(SpliceUpAborted)
    /\ WF_vars(SpliceDownAborted)
    /\ WF_vars(EndpointEnd)
    /\ WF_vars(EndpointUpAborted)
    /\ WF_vars(EndpointDownAborted)

\* ------------------------------------------- SOCKS5 and tunnel: claims

\* The last Write the client received.
LastReply == IF cout = <<>> THEN <<>> ELSE cout[Len(cout)]

Received(reply) == \E i \in 1..Len(cout) : cout[i] = reply

\* C2: a session whose request carried an unsupported command (greeting and
\* request otherwise well formed, the client still connected) has, when it
\* closes, written the reject reply 05 03 00 01 00 00 00 00 00 00 last.
C2_UnsupportedCommandRejected ==
    (spc = "closed" /\ firstByte = 5 /\ unsupported /\ clientUp) =>
        LastReply = <<5, 3, 0, 1, 0, 0, 0, 0, 0, 0>>

\* C3: when the first byte received from the client is not 5, nothing is
\* ever written to the client, no request is read, no tunnel is dialled and
\* no UDP socket is opened.
C3_BadVersionClosesSilently ==
    (firstByte # -1 /\ firstByte # 5) =>
        /\ cout = <<>>
        /\ ~reqRead
        /\ tunC = "none"
        /\ udpConn = "none"

\* C8: on a tunnelled stream proxyDial writes one request and reads one
\* response before the session's copies move any application byte, the
\* endpoint reads one request and writes one response before its copies move
\* any application byte, neither side ever exchanges a second one, and no
\* Decode consumes an application byte.
C8_HandshakeBeforeData ==
    /\ reqWritten <= 1 /\ respRead <= 1
    /\ reqDecoded <= 1 /\ respWritten <= 1
    /\ cApp > 0 => reqWritten = 1 /\ respRead = 1
    /\ eApp > 0 => reqDecoded = 1 /\ respWritten = 1
    /\ handshakeAte = 0
    /\ \A i \in 1..Len(c2e) : c2e[i] = "data" => reqWritten = 1 /\ respRead = 1
    /\ \A i \in 1..Len(e2c) : e2c[i] = "data" => reqDecoded = 1 /\ respWritten = 1

\* C8, witness: after one request and one response, application bytes have
\* passed through the stream in both directions.
C8_Witness ==
    /\ reqWritten = 1 /\ respRead = 1 /\ reqDecoded = 1 /\ respWritten = 1
    /\ dRecv = MaxData
    /\ Received(<<255>>)
    /\ cApp > MaxData
    /\ eApp > MaxData

\* C9: when the tunnel dial or the framed handshake of a CONNECT has failed
\* (the endpoint's success=false included), no success reply is written, the
\* tunnel connection is not left open, the session goes on to close, and a
\* client that is still connected has received the reject reply
\* 05 03 00 01 00 00 00 00 00 00 last.
C9_HandshakeFailureRejected ==
    cause \in {"dial", "encode", "decode", "remote"} =>
        /\ spc \in {"reject", "closed"}
        /\ tunC # "open"
        /\ ~Received(<<5, 0, 0, 1, 127, 0, 0, 1, 0, 0>>)
        /\ (spc = "closed" /\ clientUp) =>
               LastReply = <<5, 3, 0, 1, 0, 0, 0, 0, 0, 0>>

\* C9, witness: the endpoint could not dial the destination and answered
\* success=false; the client got the method-select reply and the reject, the
\* session is closed and both ends of the stream are closed.
C9_Witness ==
    /\ cause = "remote"
    /\ spc = "closed"
    /\ clientUp
    /\ cout = << <<5, 0>>, <<5, 3, 0, 1, 0, 0, 0, 0, 0, 0>> >>
    /\ destOpen = "none"
    /\ tunC = "closed"
    /\ tunE = "closed"

\* C10: the success reply 05 00 00 01 7f 00 00 01 00 00 reaches the client
\* only after the tunnel dial and the framed handshake have succeeded, right
\* after the method-select reply 05 00, and so before any byte copied from
\* the tunnel.
C10_SuccessReplyOrder ==
    \A i \in 1..Len(cout) :
        cout[i] = <<5, 0, 0, 1, 127, 0, 0, 1, 0, 0>> =>
            /\ tunC # "none"
            /\ reqWritten = 1 /\ respRead = 1
            /\ cause = "none"
            /\ i = 2
            /\ cout[1] = <<5, 0>>

\* C11: once the endpoint has encoded a response with success=false it
\* holds no destination connection, has started no copy and has closed the
\* stream; and a proxyDial that has read such a response, or has failed to
\* read one, has closed its stream and returned an error: the session neither
\* replies success nor splices.
C11_FailureClosesBothSides ==
    /\ eResp = "fail" =>
          /\ destOpen = "none"
          /\ ecpUp = "idle" /\ ecpDown = "idle" /\ eApp = 0
          /\ epc = "closed"
          /\ tunE = "closed"
    /\ (reqWritten = 1 /\ spc # "decode" /\ (respRead = 0 \/ eResp = "fail")) =>
          /\ tunC = "closed"
          /\ spc \in {"reject", "closed"}
          /\ cpUp = "idle" /\ cpDown = "idle"
          /\ ~Received(<<5, 0, 0, 1, 127, 0, 0, 1, 0, 0>>)

\* C11, witness: the destination dial failed, the endpoint answered
\* success=false, proxyDial read it and the session has closed after its
\* reject.
C11_Witness ==
    /\ eResp = "fail"
    /\ reqDecoded = 1
    /\ respRead = 1
    /\ e2c = <<>>
    /\ spc = "closed"
    /\ tunC = "closed"
    /\ tunE = "closed"

\* C12: whenever the endpoint handler has returned, the accepted stream is
\* closed and the destination connection is not open.
C12_EndpointClosesAll ==
    epc = "closed" => tunE = "closed" /\ destOpen # "open"

\* C12, witness: the handler has returned from a splice that moved
\* application bytes; the stream and the destination are closed.
C12_Witness ==
    /\ epc = "closed"
    /\ eApp > 0
    /\ tunE = "closed"
    /\ destOpen = "closed"

\* C13: once a copy of a splice has finished (or, in the SOCKS5 session, the
\* ambient context is cancelled during the splice), the handler returns, both
\* connections of the splice get closed and both copies terminate.
C13_SpliceTearsDown ==
    /\ (spc = "splice" /\ (cpUp = "done" \/ cpDown = "done" \/ rtDone)) ~>
          (/\ spc = "closed"
           /\ tunC = "closed"
           /\ connCloses = 1
           /\ cpUp = "done" /\ cpDown = "done")
    /\ (epc = "splice" /\ (ecpUp = "done" \/ ecpDown = "done")) ~>
          (/\ epc = "closed"
           /\ tunE = "closed"
           /\ destOpen = "closed"
           /\ ecpUp = "done" /\ ecpDown = "done")

\* C13, witness: after a splice that moved application bytes both handlers
\* have returned, every connection is closed and all four copies have ended.
C13_Witness ==
    /\ spc = "closed" /\ epc = "closed"
    /\ cApp > 0 /\ eApp > 0
    /\ tunC = "closed" /\ tunE = "closed" /\ destOpen = "closed"
    /\ cpUp = "done" /\ cpDown = "done"
    /\ ecpUp = "done" /\ ecpDown = "done"

\* C14 as stated: whenever the handler of a spliced session has returned,
\* both one-way copies have terminated.
C14_DoneOnlyWhenBothEnded ==
    /\ (spc = "closed" /\ cpUp # "idle") => cpUp = "done" /\ cpDown = "done"
    /\ (epc = "closed" /\ ecpUp # "idle") => ecpUp = "done" /\ ecpDown = "done"

\* C14 as amended: whenever the handler of a spliced session has returned,
\* at least one of the two one-way copies has terminated or, for the SOCKS5
\* session, the ambient context has been cancelled.
C14_DoneWhenOneEnded ==
    /\ (spc = "closed" /\ cpUp # "idle") =>
          cpUp = "done" \/ cpDown = "done" \/ rtDone
    /\ (epc = "closed" /\ ecpUp # "idle") =>
          ecpUp = "done" \/ ecpDown = "done"

\* C14, witness: the session handler has returned and closed both
\* connections after the client-to-tunnel copy ended, while the other copy
\* has not terminated yet.
C14_Witness ==
    /\ spc = "closed"
    /\ connCloses = 1
    /\ tunC = "closed"
    /\ cpUp = "done"
    /\ cpDown = "run"
    /\ ~rtDone

\* C20: the client stream is closed at most once, and it has been closed
\* exactly when the session handler has returned, whichever way it went.
C20_ClientStreamClosedOnce ==
    /\ connCloses <= 1
    /\ spc = "closed" <=> connCloses = 1

\* C20, witness: a session has been torn down after a CONNECT splice that
\* copied tunnel data to the client, and its stream was closed once.
C20_Witness ==
    /\ spc = "closed"
    /\ connCloses = 1
    /\ Received(<<255>>)
    /\ cpUp = "done" /\ cpDown = "done"

\* C24: a tunnel is dialled or a UDP socket opened only for a request of the
\* shape [5][1 or 3][0][address][port] whose ATYP is 1, 3 or 4; a request
\* with any other ATYP, which decodes to an empty host, gets neither.
C24_OnlyWellFormedRequestsServed ==
    (tunC # "none" \/ udpConn # "none") =>
        (reqRead /\ cmd \in {1, 3} /\ raddr \in {TargetOf(1), TargetOf(3), TargetOf(4)})

\* ------------------------------------------------ SOCKS5 listener: actions

\* A client connects to the listening socket.
ClientConnect ==
    /\ lis = "open"
    /\ pending + accepted < MaxClients
    /\ pending' = pending + 1
    /\ UNCHANGED <<lis, lisCloses, accPc, closerPc, accepted, served>>
    /\ UNCHANGED <<fanVars, sockVars, extVars>>

\* StartProxyClientWithListener, line 180: the loop condition; with the
\* context cancelled the function returns nil (line 286).
AcceptLoopTop ==
    /\ accPc = "top"
    /\ accPc' = IF rtDone THEN "returned" ELSE "accept"
    /\ UNCHANGED <<lis, lisCloses, closerPc, pending, accepted, served>>
    /\ UNCHANGED <<fanVars, sockVars, extVars>>

\* Lines 181-185: Accept returns a connection and its handler is started.
AcceptConn ==
    /\ accPc = "accept"
    /\ lis = "open"
    /\ pending > 0
    /\ pending' = pending - 1
    /\ accepted' = accepted + 1
    /\ accPc' = "top"
    /\ UNCHANGED <<lis, lisCloses, closerPc, served>>
    /\ UNCHANGED <<fanVars, sockVars, extVars>>

\* Lines 181-184: Accept fails because the listener has been closed.
AcceptClosed ==
    /\ accPc = "accept"
    /\ lis = "closed"
    /\ accPc' = "returned"
    /\ UNCHANGED <<lis, lisCloses, closerPc, pending, accepted, served>>
    /\ UNCHANGED <<fanVars, sockVars, extVars>>

\* Lines 181-184: Accept fails on an open listener (the system is out of
\* descriptors, say).
AcceptError ==
    /\ accPc = "accept"
    /\ lis = "open"
    /\ accPc' = "returned"
    /\ UNCHANGED <<lis, lisCloses, closerPc, pending, accepted, served>>
    /\ UNCHANGED <<fanVars, sockVars, extVars>>

\* A closing goroutine whose Close() does nothing.
ListenerClose_Noop(l) == l

\* net.Listener.Close.
ListenerClose(l) == "closed"

\* StartProxyClient, lines 166-169: once RuntimeContext is done the
\* goroutine closes the listener; connections still queued are dropped.
CloserFire ==
    /\ closerPc = "wait"
    /\ rtDone
    /\ lis' = ListenerClose(lis)
    /\ lisCloses' = lisCloses + 1
    /\ closerPc' = "done"
    /\ pending' = IF lis' = "closed" THEN 0 ELSE pending
    /\ UNCHANGED <<accPc, accepted, served>>
    /\ UNCHANGED <<fanVars, sockVars, extVars>>

\* Lines 185-284: the handler of an accepted connection returns.
SessionServed ==
    /\ served < accepted
    /\ served' = served + 1
    /\ UNCHANGED <<lis, lisCloses, accPc, closerPc, pending, accepted>>
    /\ UNCHANGED <<fanVars, sockVars, extVars>>

ListenerNext ==
    \/ AmbientCancel
    \/ ClientConnect
    \/ AcceptLoopTop
    \/ AcceptConn
    \/ AcceptClosed
    \/ AcceptError
    \/ CloserFire
    \/ SessionServed

\* The accept loop and the closing goroutine run: a step of theirs that
\* stays possible happens. Nothing is assumed of clients or of Accept's
\* failures on an open listener.
ListenerSpec ==
    /\ Init
    /\ [][ListenerNext]_vars
    /\ WF_vars(AcceptLoopTop)
    /\ WF_vars(AcceptConn)
    /\ WF_vars(AcceptClosed)
    /\ WF_vars(CloserFire)

\* ------------------------------------------------- SOCKS5 listener: claims

\* C18: once the ambient context is cancelled the listener gets closed (by
\* one Close) and the accept loop returns; and no connection is accepted
\* once the listener is closed or the loop has returned.
C18_CancelStopsAcceptLoop ==
    /\ rtDone ~> (accPc = "returned" /\ lis = "closed" /\ lisCloses = 1)
    /\ [][(lis = "closed" \/ accPc = "returned") => accepted' = accepted]_vars

\* C18, witness: sessions had been accepted, the context was cancelled
\* while the loop was blocked in Accept, the listener is closed and the loop
\* has returned.
C18_Witness ==
    /\ rtDone
    /\ accepted = MaxClients - 1
    /\ accPc = "returned"
    /\ lis = "closed"
    /\ closerPc = "done"
    /\ served < accepted

\* C19: whenever the accept loop has ended and the closing goroutine has
\* nothing left to do (it has run, or the context is not cancelled), the
\* listener has been closed exactly once.
C19_ListenerClosedOnce ==
    (accPc = "returned" /\ (closerPc = "done" \/ ~rtDone)) => lisCloses = 1

\* -------------------------------------------- UDP association: actions
\* The ASSOCIATE branch of the handler (socks5.go, lines 212-280) run
\* together with the fan-in pool it drives: serveContext is the pool's
\* context, udpConn.ReadFromUDP is the Receiver, and each call of the
\* initialiser starts one more goroutine that waits for serveContext.

\* The handler has listened, replied and is about to call RedirectFanIn.
AssocInit ==
    /\ FanInit
    /\ LisInit
    /\ CodecIdle
    /\ MuInit
    /\ MoreIdle
    /\ spc = "udp_active"
    /\ firstByte = 5
    /\ reqRead = TRUE
    /\ unsupported = FALSE
    /\ cmd = 3
    /\ raddr = TargetOf(1)
    /\ cout = <<MethodReply, UdpReplyBytes>>
    /\ clientUp = TRUE
    /\ cSent = 0
    /\ cause = "none"
    /\ cpUp = "idle"
    /\ cpDown = "idle"
    /\ udpConn = "open"
    /\ tunC = "none"
    /\ tunE = "none"
    /\ c2e = <<>>
    /\ e2c = <<>>
    /\ epc = "idle"
    /\ destOpen = "none"
    /\ dSent = 0
    /\ dRecv = 0
    /\ ecpUp = "idle"
    /\ ecpDown = "idle"
    /\ reqWritten = 0
    /\ respRead = 0
    /\ reqDecoded = 0
    /\ respWritten = 0
    /\ handshakeAte = 0
    /\ cApp = 0
    /\ eApp = 0
    /\ rtDone = FALSE
    /\ connCloses = 0
    /\ eResp = "none"
    /\ crashed = FALSE

\* RuntimeContext is cancelled, and serveContext, derived from it at line
\* 230, with it.
AssocAmbientCancel ==
    /\ ~rtDone
    /\ rtDone' = TRUE
    /\ ctxDone' = TRUE
    /\ UNCHANGED <<crashed, connCloses, eResp>>
    /\ UNCHANGED <<sessState, clientState, spliceState, udpConn, tunState, endState, frameState>>
    /\ UNCHANGED <<clockState, channelMap, idleTicks>>
    /\ UNCHANGED <<wrapState, peerState, taskState, workerState, loopState, bufState,
                   callState>>
    /\ UNCHANGED <<lisVars, extVars>>

\* The client sends a byte on the TCP connection of the association.
AssocClientByte ==
    /\ clientUp
    /\ spc # "closed"
    /\ cSent = 0
    /\ cSent' = 1
    /\ UNCHANGED <<cout, clientUp>>
    /\ UNCHANGED <<sessState, spliceState, udpConn, tunState, endState, frameState>>
    /\ UNCHANGED <<lifeState, connCloses, eResp>>
    /\ UNCHANGED <<fanVars, lisVars, extVars>>

\* conn.Read of line 232 has returned: the client sent a byte or closed, or
\* the handler itself has closed the connection.
ReadReturned == cSent > 0 \/ ~clientUp \/ spc = "closed"

\* The reading goroutine, lines 232-233: conn.Read returns, udpConn.Close().
AssocReaderClose ==
    /\ udpConn = "open"
    /\ ReadReturned
    /\ udpConn' = "closed"
    /\ UNCHANGED <<sessState, clientState, spliceState, tunState, endState, frameState>>
    /\ UNCHANGED <<lifeState, connCloses, eResp>>
    /\ UNCHANGED <<fanVars, lisVars, extVars>>

\* The reading goroutine, line 234: cancelFn().
AssocReaderCancel ==
    /\ udpConn = "closed"
    /\ Cancel

\* The Receiver, lines 240-258: a datagram of senderID id arrives on the
\* open socket and parses.
AssocRecvData(id) ==
    /\ udpConn = "open"
    /\ RecvData(id)

\* A Receiver that reports io.EOF for what it cannot take.
AssocRecvErr_EOF ==
    /\ RecvEOF

\* The Receiver, lines 240-257: ReadFromUDP fails on the closed socket, or a
\* datagram arrives that does not parse. Its reader runs over the whole
\* 65536-byte buffer, so the Receiver never returns io.EOF.
AssocRecvErr ==
    /\ RecvErr

\* The initialiser's goroutine, lines 275-278, of a dial that succeeded:
\* peerConn.Close() once serveContext is done.
AssocPeerClose(w) ==
    /\ ctxDone
    /\ conn[w] = "open"
    /\ conn' = [conn EXCEPT ![w] = "closed"]
    /\ UNCHANGED <<lastActive, lastWrite, isclosed, closeCalls>>
    /\ UNCHANGED <<ctxDone, clockState, channelMap, idleTicks>>
    /\ UNCHANGED <<peerState, taskState, workerState, loopState, bufState, callState>>
    /\ UNCHANGED <<sockVars, lisVars, extVars>>

\* Calls of the initialiser whose Dialer failed: it returned a nil peerConn
\* (main.go, lines 111-114) and its goroutine holds that nil.
NilWaiters ==
    \E id \in IDs :
        initCalls[id] > Cardinality({w \in Wrappers : wid[w] = id /\ conn[w] # "none"})

\* The initialiser's goroutine, lines 275-278, of a dial that failed:
\* peerConn.Close() on the nil interface panics and the process ends.
AssocPanic ==
    /\ ctxDone
    /\ NilWaiters
    /\ crashed' = TRUE
    /\ UNCHANGED <<rtDone, connCloses, eResp>>
    /\ UNCHANGED <<sessState, clientState, spliceState, udpConn, tunState, endState, frameState>>
    /\ UNCHANGED <<fanVars, lisVars, extVars>>

\* Lines 239-284: RedirectFanIn has returned, the handler returns and its
\* deferred session.close() runs.
AssocReturn ==
    /\ spc = "udp_active"
    /\ rpc = "returned"
    /\ spc' = "closed"
    /\ connCloses' = SessionClose(connCloses)
    /\ UNCHANGED <<firstByte, reqRead, unsupported, cmd, raddr, cause>>
    /\ UNCHANGED <<clientState, spliceState, udpConn, tunState, endState, frameState>>
    /\ UNCHANGED <<lifeState, eResp>>
    /\ UNCHANGED <<fanVars, lisVars, extVars>>

\* The senderID the Receiver reports for a datagram whose address decodes to
\* an empty host: ":" and the port.
EmptyHostID == NumIDs

\* The senderIDs with a host.
HostIDs == IDs \ {EmptyHostID}

\* The Receiver, lines 244-258, on a datagram whose three leading bytes are
\* all zero or not, whose ATYP is atyp and whose address, when ATYP is 1, 3
\* or 4, is that of id: 0 for an error, else the senderID. readProxyAddress
\* has no case for another ATYP: it leaves the host empty and reads the port.
ReceiverResult(zeros, atyp, id) ==
    IF ~zeros THEN 0
    ELSE IF atyp \in {1, 3, 4} THEN id ELSE EmptyHostID

\* A datagram arrives on the open socket and the Receiver returns.
AssocDatagram(zeros, atyp, id) ==
    IF ReceiverResult(zeros, atyp, id) = 0
    THEN udpConn = "open" /\ AssocRecvErr
    ELSE AssocRecvData(ReceiverResult(zeros, atyp, id))

\* What the client and the network do: cancel, send, close, deliver a
\* datagram, close an upstream peer.
AssocEnvStep ==
    \/ ~crashed /\ AssocAmbientCancel
    \/ ~crashed /\ AssocClientByte
    \/ ~crashed /\ ClientHangup
    \/ ~crashed /\ \E zeros \in BOOLEAN, atyp \in Bytes, id \in HostIDs :
                        AssocDatagram(zeros, atyp, id)
    \/ ~crashed /\ \E w \in Wrappers : CopyEOF(w)

\* What the program's goroutines do by themselves.
AssocProgramStep ==
    \/ ~crashed /\ AssocReaderClose
    \/ ~crashed /\ AssocReaderCancel
    \/ ~crashed /\ udpConn = "closed" /\ AssocRecvErr
    \/ ~crashed /\ LoopTop
    \/ ~crashed /\ GCCtxDone
    \/ ~crashed /\ \E k \in Workers : WorkerLookup(k)
    \/ ~crashed /\ \E k \in Workers : WorkerCheck(k)
    \/ ~crashed /\ \E k \in Workers : WorkerInit(k)
    \/ ~crashed /\ \E k \in Workers : WorkerRegister(k)
    \/ ~crashed /\ \E k \in Workers : WorkerWrite(k)
    \/ ~crashed /\ \E w \in Wrappers : CopyData(w)
    \/ ~crashed /\ \E w \in Wrappers : CopyEnd(w)
    \/ ~crashed /\ \E w \in Wrappers : CtxWait(w)
    \/ ~crashed /\ \E w \in Wrappers : AssocPeerClose(w)
    \/ ~crashed /\ AssocPanic
    \/ ~crashed /\ AssocReturn

\* After a panic nothing runs any more (every step asks for ~crashed). The
\* association is followed for less than one GC period.
AssocNext ==
    \/ AssocEnvStep
    \/ AssocProgramStep

AssocSpec == AssocInit /\ [][AssocNext]_vars

\* -------------------------------------------- UDP association: claims

\* Every goroutine of the association is blocked or has ended.
AssocAtRest == ~ENABLED AssocProgramStep

\* The association is torn down: the fan-in loop has returned, the UDP
\* socket and every tunnel are closed, the session is closed.
AssocTornDown ==
    /\ rpc = "returned"
    /\ udpConn = "closed"
    /\ ctxDone
    /\ \A w \in Wrappers : conn[w] # "open"

\* C15: once the ambient context is cancelled the association ends by
\* itself: when its goroutines have come to rest (the process still running)
\* the fan-in loop has returned, the UDP socket is closed and the session is
\* closed, whether or not a datagram arrived or the client did anything.
C15_AmbientCancelEndsAssociation ==
    (rtDone /\ ~crashed /\ AssocAtRest) => (AssocTornDown /\ spc = "closed")

\* C16: once a read of the session's TCP connection has returned, the
\* association is torn down: when its goroutines have come to rest the UDP
\* socket is closed, the serve context is cancelled, every fan-in channel is
\* closed and RedirectFanIn has returned.
C16_TcpReadTearsDown ==
    (ReadReturned /\ AssocAtRest) => AssocTornDown

\* C21: whatever goes wrong in the session (here: a datagram that does not
\* parse, a tunnel dial that fails), the process keeps running: the error
\* ends neither the process nor, with it, the accept loop and the other
\* sessions.
C21_SessionErrorsConfined == ~crashed

\* C23: a datagram whose address does not decode (its ATYP is none of 1, 3
\* and 4, so that its senderID has an empty host) is dropped: no tunnel is
\* created for it.
C23_MalformedDatagramDropped ==
    \A k \in Workers : wid[k] = EmptyHostID => conn[k] = "none"

\* The workers of senderID id that have been through the initialiser or
\* have returned.
PastInit(id) == {k \in Workers : wid[k] = id /\ wpc[k] \in {"register", "done"}}

\* C34: when the tunnel initialiser fails in lookupOrCreateChannel, the pool
\* map and the wrappers are left as they were, no copy task and no context
\* waiter is spawned, the worker returns with the error, and the failure is
\* not remembered: as long as no wrapper has been registered for a senderID,
\* every datagram of that senderID calls the initialiser.
C34_FailedInitLeavesNoTrace ==
    /\ [][\A k \in Workers :
            (wpc[k] = "init" /\ wpc'[k] = "done") =>
               /\ channelMap' = channelMap
               /\ UNCHANGED <<copyPc, waitPc, conn, isclosed, closeCalls, upIn, sent>>
               /\ initCalls'[wid[k]] = initCalls[wid[k]] + 1]_vars
    /\ [](\A id \in IDs :
            (\A w \in Wrappers : wid[w] = id => copyPc[w] = "none")
               => initCalls[id] = Cardinality(PastInit(id)))

\* The initialiser has failed for both datagrams of one senderID: it was
\* called for the second as well, and the map is empty.
C34_Witness ==
    \E id \in IDs :
        /\ initCalls[id] = 2
        /\ \A k \in Workers : wid[k] = id /\ wpc[k] = "done" /\ conn[k] = "none"
        /\ \A i \in IDs : channelMap[i] = NoChan

\* C29: every write refreshes lastActive, in both directions, so lastActive
\* is never older than the most recent write through the wrapper, and a GC
\* tick neither closes nor removes a wrapper that is not closed and through
\* which data was written less than Timeout before the tick.
C29_RecentWriteSurvivesTick ==
    /\ [](\A w \in Wrappers :
            lastWrite[w] # NeverWritten => lastActive[w] >= lastWrite[w])
    /\ [][TickServed =>
            \A w \in Wrappers :
               (/\ ~isclosed[w]
                /\ lastWrite[w] # NeverWritten
                /\ now - lastWrite[w] < Timeout)
               => /\ isclosed'[w] = isclosed[w]
                  /\ conn'[w] = conn[w]
                  /\ closeCalls'[w] = closeCalls[w]
                  /\ InMap(w)' = InMap(w)]_vars

\* A tick is due while a registered, open wrapper carries a write of this
\* very instant in each direction: the peer has answered and the answer has
\* been sent back.
C29_Witness ==
    /\ TickDue
    /\ \E w \in Wrappers :
         /\ InMap(w) /\ ~isclosed[w] /\ conn[w] = "open"
         /\ lastWrite[w] = now
         /\ sent[wid[w]] # <<>>

\* ------------------------------------------------------- address codec

\* Texts are tuples of one-character strings.
DigitChars == <<"0", "1", "2", "3", "4", "5", "6", "7", "8", "9",
                "a", "b", "c", "d", "e", "f">>

RECURSIVE FormatUint(_, _)
\* strconv.Itoa (base 10) and the hexadecimal of a group of net.IP.String
\* (base 16): the digits of n, most significant first, no leading zero.
FormatUint(n, base) ==
    IF n < base THEN <<DigitChars[n + 1]>>
    ELSE FormatUint(n \div base, base) \o <<DigitChars[(n % base) + 1]>>

\* The i-th 16-bit group of a sixteen-byte address, i in 1..8.
Group(ip, i) == ip[2 * i - 1] * 256 + ip[2 * i]

\* The number of consecutive zero groups that begin at group i.
ZeroRun(ip, i) ==
    IF Group(ip, i) # 0 THEN 0
    ELSE LET stops == {j \in i..8 : Group(ip, j) # 0}
         IN  IF stops = {} THEN 9 - i
             ELSE (CHOOSE j \in stops : \A j2 \in stops : j <= j2) - i

\* The longest run of zero groups, the first one if several are as long.
LongestRun(ip) ==
    CHOOSE i \in 1..8 :
        \A j \in 1..8 : ZeroRun(ip, j) < ZeroRun(ip, i)
                        \/ (ZeroRun(ip, j) = ZeroRun(ip, i) /\ i <= j)

RECURSIVE JoinGroups(_, _, _)
\* Groups from..to in hexadecimal, with a colon between two of them.
JoinGroups(ip, from, to) ==
    IF from > to THEN <<>>
    ELSE FormatUint(Group(ip, from), 16)
         \o (IF from < to THEN <<":">> ELSE <<>>)
         \o JoinGroups(ip, from + 1, to)

\* net.IP.String, as lines 62 and 78 call it: dotted decimal when To4 yields
\* an address; otherwise the eight groups in hexadecimal, the longest run of
\* two or more zero groups written as "::".
IPString(ip) ==
    IF To4(ip) # <<>>
    THEN LET b == To4(ip)
         IN  FormatUint(b[1], 10) \o <<".">> \o FormatUint(b[2], 10) \o <<".">>
             \o FormatUint(b[3], 10) \o <<".">> \o FormatUint(b[4], 10)
    ELSE LET e0 == LongestRun(ip)
             n  == ZeroRun(ip, e0)
         IN  IF n < 2 THEN JoinGroups(ip, 1, 8)
             ELSE JoinGroups(ip, 1, e0 - 1) \o <<":", ":">>
                  \o JoinGroups(ip, e0 + n, 8)

\* readProxyAddress, lines 57-79: the target and the number of bytes read
\* before the port. No case of the switch takes any other ATYP: the target
\* stays empty and only the ATYP byte has been read.
ReadTarget(b) ==
    CASE b[1] = 1 -> <<IPString(SubSeq(b, 2, 5)), 5>>
      [] b[1] = 3 -> <<SubSeq(b, 3, 2 + b[2]), 2 + b[2]>>
      [] b[1] = 4 -> <<IPString(SubSeq(b, 2, 17)), 17>>
      [] OTHER    -> <<<<>>, 1>>

\* readProxyAddress, lines 80-84: two more bytes are the port, high byte
\* first; the result is target + ":" + strconv.Itoa(port).
readProxyAddress(b) ==
    LET t == ReadTarget(b)
    IN  t[1] \o <<":">> \o FormatUint(b[t[2] + 1] * 256 + b[t[2] + 2], 10)

\* The endpoints converted: IPv4 addresses in four and in sixteen bytes, and
\* IPv6 addresses with no, one, several and only zero groups.
Endpoints ==
    { <<192, 168, 0, 1>>,
      <<0, 0, 0, 0>>,
      <<255, 255, 255, 255>>,
      V4InV6Prefix \o <<10, 0, 0, 9>>,
      <<0, 0, 0, 0, 0, 0, 0, 0, 0, 0, 0, 0, 0, 0, 0, 0>>,
      <<0, 0, 0, 0, 0, 0, 0, 0, 0, 0, 0, 0, 0, 0, 0, 1>>,
      <<32, 1, 13, 184, 0, 0, 0, 0, 0, 0, 0, 0, 0, 0, 0, 1>>,
      <<254, 128, 0, 0, 0, 0, 0, 1, 0, 0, 0, 0, 0, 0, 0, 1>>,
      <<32, 1, 13, 184, 0, 0, 0, 1, 0, 1, 0, 1, 0, 1, 0, 1>>,
      <<32, 1, 13, 184, 0, 1, 0, 2, 0, 3, 0, 4, 0, 5, 171, 205>> }

Ports == 0..MaxPort

\* An endpoint and a port are given; nothing has been written.
CodecInit ==
    /\ FanInit
    /\ SockInit
    /\ LisInit
    /\ MuInit
    /\ MoreIdle
    /\ cE \in Endpoints
    /\ cP \in Ports
    /\ cWire = <<>>
    /\ cText = <<>>

\* writeIPAndPort(writer, &net.TCPAddr{IP: cE, Port: cP}) into a buffer.
CodecWrite ==
    /\ cWire = <<>>
    /\ cWire' = writeIPAndPort(cE, cP)
    /\ UNCHANGED <<cE, cP, cText>>
    /\ UNCHANGED <<fanVars, sockVars, lisVars, muVars, moreVars>>

\* readProxyAddress on a reader over the bytes written.
CodecRead ==
    /\ cWire # <<>>
    /\ cText = <<>>
    /\ cText' = readProxyAddress(cWire)
    /\ UNCHANGED <<cE, cP, cWire>>
    /\ UNCHANGED <<fanVars, sockVars, lisVars, muVars, moreVars>>

CodecNext ==
    \/ CodecWrite
    \/ CodecRead

CodecSpec == CodecInit /\ [][CodecNext]_vars

\* C25: for every IPv4 or IPv6 endpoint E and every port P in 0..65535,
\* readProxyAddress applied to the bytes writeIPAndPort(E, P) wrote returns
\* the text of E, a colon and P in decimal; the two port bytes on the wire
\* are P's high and low byte and decode back to P.
C25_AddressRoundTrip ==
    /\ cText # <<>> => cText = IPString(cE) \o <<":">> \o FormatUint(cP, 10)
    /\ cWire # <<>> =>
          /\ Len(cWire) \in {7, 19}
          /\ cWire[Len(cWire) - 1] * 256 + cWire[Len(cWire)] = cP
          /\ cWire[Len(cWire) - 1] \in 0..255
          /\ cWire[Len(cWire)] \in 0..255

\* The largest port has gone through both conversions for an IPv6 address
\* that is written with "::".
C25_Witness ==
    /\ cText # <<>>
    /\ cP = MaxPort
    /\ Len(cE) = 16
    /\ To4(cE) = <<>>
    /\ \E i \in 1..(Len(cText) - 1) : cText[i] = ":" /\ cText[i + 1] = ":"

\* ------------------------------------------------- the pool map's lock

\* The senderIDs the map holds, i.e. what a range over it visits.
MapKeys == {i \in IDs : channelMap[i] # NoChan}

\* spawnGCRoutine, lines 127-129: the ticker has fired; channelmap.mu.Lock(),
\* pendingRemove is empty and the range over the map begins.
GcLockTick ==
    /\ gcRunning
    /\ now = nextTick
    /\ gcPc = "idle"
    /\ mu = "free"
    /\ mu' = "gc"
    /\ gcPc' = "tick"
    /\ gcTodo' = MapKeys
    /\ gcRemove' = {}
    /\ UNCHANGED <<fanVars, sockVars, lisVars, codecVars, moreVars>>

\* Lines 130-136, one iteration: an entry that is closed or outdated is
\* closed by conn.close() and noted in pendingRemove.
GcVisitTick(id) ==
    /\ gcPc = "tick"
    /\ id \in gcTodo
    /\ gcTodo' = gcTodo \ {id}
    /\ IF isclosed[channelMap[id]] \/ outdated(channelMap[id], Timeout)
       THEN /\ closeAll({channelMap[id]})
            /\ gcRemove' = gcRemove \cup {id}
            /\ UNCHANGED idleTicks
       ELSE /\ idleTicks' = [idleTicks EXCEPT ![channelMap[id]] =
                  IF now - lastActive[channelMap[id]] < Timeout THEN 0
                  ELSE IF @ < 2 THEN @ + 1 ELSE 2]
            /\ UNCHANGED <<isclosed, conn, closeCalls, gcRemove>>
    /\ UNCHANGED <<mu, gcPc>>
    /\ UNCHANGED <<ctxDone, clockState, channelMap, lastActive, lastWrite>>
    /\ UNCHANGED <<peerState, taskState, workerState, loopState, bufState, callState>>
    /\ UNCHANGED <<sockVars, lisVars, codecVars, moreVars>>

\* Lines 137-140: the range is over; the noted entries are deleted and
\* channelmap.mu.Unlock() runs. The ticker fires again a Timeout later.
GcUnlockTick ==
    /\ gcPc = "tick"
    /\ gcTodo = {}
    /\ channelMap' = [i \in IDs |-> IF i \in gcRemove THEN NoChan ELSE channelMap[i]]
    /\ nextTick' = now + Timeout
    /\ mu' = "free"
    /\ gcPc' = "idle"
    /\ gcRemove' = {}
    /\ UNCHANGED <<gcTodo, ctxDone, gcRunning, idleTicks>>
    /\ UNCHANGED <<wrapState, peerState, taskState, workerState, loopState, bufState,
                   callState>>
    /\ UNCHANGED <<sockVars, lisVars, codecVars, moreVars>>

\* Lines 118-120: the context is done; channelmap.mu.Lock() and the range
\* over the map begins.
GcLockCtx ==
    /\ gcRunning
    /\ ctxDone
    /\ gcPc = "idle"
    /\ mu = "free"
    /\ mu' = "gc"
    /\ gcPc' = "ctx"
    /\ gcTodo' = MapKeys
    /\ UNCHANGED gcRemove
    /\ UNCHANGED <<fanVars, sockVars, lisVars, codecVars, moreVars>>

\* Lines 120-124, one iteration: conn.close().
GcVisitCtx(id) ==
    /\ gcPc = "ctx"
    /\ id \in gcTodo
    /\ gcTodo' = gcTodo \ {id}
    /\ closeAll({channelMap[id]})
    /\ UNCHANGED <<mu, gcPc, gcRemove>>
    /\ UNCHANGED <<ctxDone, clockState, channelMap, lastActive, lastWrite, idleTicks>>
    /\ UNCHANGED <<peerState, taskState, workerState, loopState, bufState, callState>>
    /\ UNCHANGED <<sockVars, lisVars, codecVars, moreVars>>

\* Lines 125-126: channelmap.mu.Unlock() and return; the deferred
\* ticker.Stop() runs.
GcUnlockCtx ==
    /\ gcPc = "ctx"
    /\ gcTodo = {}
    /\ mu' = "free"
    /\ gcPc' = "idle"
    /\ gcRunning' = FALSE
    /\ nextTick' = now
    /\ UNCHANGED <<gcTodo, gcRemove, ctxDone, channelMap, idleTicks>>
    /\ UNCHANGED <<wrapState, peerState, taskState, workerState, loopState, bufState,
                   callState>>
    /\ UNCHANGED <<sockVars, lisVars, codecVars, moreVars>>

\* getChannel takes the map's read lock (lines 92-93) and line 161 its write
\* lock: both wait while the GC routine holds the write lock. Nothing else
\* of the pool touches channelmap.mu. The pool runs in the scenario of
\* TestBasic, except that its context may be cancelled.
FanLockNext ==
    \/ GcLockTick
    \/ \E id \in IDs : GcVisitTick(id)
    \/ GcUnlockTick
    \/ GcLockCtx
    \/ \E id \in IDs : GcVisitCtx(id)
    \/ GcUnlockCtx
    \/ Advance
    \/ Cancel
    \/ LoopTop
    \/ \E id \in IDs : RecvData(id) /\ \A k \in Workers : wpc[k] # "idle" => wid[k] # id
    \/ RecvEOF
    \/ \E k \in Workers : mu = "free" /\ WorkerLookup(k)
    \/ \E k \in Workers : WorkerCheck(k)
    \/ \E k \in Workers : WorkerInit(k) /\ conn'[k] = "open"
    \/ \E k \in Workers : mu = "free" /\ WorkerRegister(k)
    \/ \E k \in Workers : WorkerWrite(k)
    \/ \E w \in Wrappers : CopyData(w)
    \/ \E w \in Wrappers : CopyEnd(w)
    \/ \E w \in Wrappers : CtxWait(w)

FanLockSpec == Init /\ [][FanLockNext]_vars

\* The step is one of the GC routine's, taken while it holds the write lock.
GcStepUnderLock == mu = "gc" /\ <<gcPc, gcTodo, gcRemove>>' # <<gcPc, gcTodo, gcRemove>>

\* C26: the goroutine that holds the pool map's write lock calls neither
\* init nor send nor connection.Close() before it has released the lock: a
\* step the GC routine takes under the lock, and the step that stores a
\* wrapper in the map, invoke none of the three.
C26_NoCallUnderWriteLock ==
    [][(GcStepUnderLock \/ channelMap' # channelMap) =>
          /\ initCalls' = initCalls
          /\ sent' = sent
          /\ closeCalls' = closeCalls]_vars

\* ------------------------------------------ UDP association: more claims

\* The Receiver has returned without a datagram for a worker although the
\* UDP socket is open: ReadFromUDP delivered a datagram and one of its first
\* three bytes is not zero (lines 245-251).
NonZeroHeaderStep ==
    /\ rpc = "recv"
    /\ udpConn = "open"
    /\ rpc' # "recv"
    /\ nrecv' = nrecv

\* C31: a UDP datagram whose first three bytes are not all zero aborts the
\* whole UDP association: RedirectFanIn returns, or the serve context is
\* cancelled, or the UDP socket is closed.
C31_NonZeroHeaderAborts ==
    [][NonZeroHeaderStep =>
          (rpc' = "returned" \/ ctxDone' \/ udpConn' = "closed")]_vars

\* C31 as it holds: a UDP datagram whose first three bytes are not all zero
\* is dropped. No worker is started for it, the receive loop is back at its
\* top, and socket, serve context, session and pool are as they were.
C31_NonZeroHeaderDropped ==
    [][NonZeroHeaderStep =>
          /\ rpc' = "top"
          /\ UNCHANGED <<udpConn, ctxDone, spc, crashed>>
          /\ UNCHANGED <<wpc, wid, channelMap, conn, isclosed, initCalls, sent>>]_vars

\* The association is up and its loop is back at its top after the Receiver
\* has refused the first datagram: a buffer was taken, no datagram counted.
C31_Witness ==
    /\ rpc = "top"
    /\ nrecv = 0
    /\ rbuf # 0
    /\ udpConn = "open"
    /\ ~ctxDone
    /\ ~crashed
    /\ spc = "udp_active"

\* C32: the tunnel initialiser neither schedules nor performs an operation
\* on an absent connection: after a dial that failed no goroutine is left
\* holding the nil connection to call Close() on it when the serve context
\* ends, and no such Close() is performed.
C32_NoOperationOnAbsentConnection ==
    /\ ~NilWaiters
    /\ ~crashed

\* ------------------------------------------- the UDP Receiver's buffer

\* The byte values of the datagrams: 0 (RSV, FRAG, an ATYP the switch does
\* not know, an empty host name) and 3 (ATYP domain name, a host name of
\* three bytes).
DatagramBytes == {0, 3}

RECURSIVE SeqsUpTo(_, _)
\* The sequences over S of length at most n.
SeqsUpTo(S, n) ==
    IF n = 0 THEN {<<>>}
    ELSE LET shorter == SeqsUpTo(S, n - 1)
         IN  shorter \cup {Append(q, x) : q \in {r \in shorter : Len(r) = n - 1}, x \in S}

\* What a client can send: ReadFromUDP cuts a datagram to the buffer.
Datagrams == SeqsUpTo(DatagramBytes, BufferSize)

\* Line 240: n, sender, err := udpConn.ReadFromUDP(buf). The datagram lies
\* in buf[0:n]; the rest of the buffer keeps what it held.
DgRead(d) ==
    /\ dpc = "recv"
    /\ dBuf' = [i \in 1..BufferSize |-> IF i <= Len(d) THEN d[i] ELSE dBuf[i]]
    /\ dN' = Len(d)
    /\ dpc' = "parse"
    /\ UNCHANGED dOff
    /\ UNCHANGED <<fanVars, sockVars, lisVars, codecVars, muVars, recvRest>>

\* Line 244: reader := bytes.NewReader(buf), over the whole buffer.
ReaderLimit == BufferSize

\* The bytes the Receiver's reader consumes: RSV, RSV, FRAG, then what
\* readProxyAddress reads, i.e. the address by ATYP and two bytes of port.
HeaderLen(buf) == 3 + ReadTarget(SubSeq(buf, 4, Len(buf)))[2] + 2

\* Lines 244-257: a non-zero byte among the first three, or a reader that
\* runs dry, is an error and RedirectFanIn goes on with a buffer of its pool
\* (the one of the last datagram served, or a new one); otherwise the
\* Receiver returns offset = len(buf) - reader.Len() and n.
DgParse ==
    /\ dpc = "parse"
    /\ IF \/ HeaderLen(dBuf) > ReaderLimit
          \/ \E i \in 1..3 : dBuf[i] # 0
       THEN /\ dpc' = "recv"
            /\ dBuf' = ZeroBuf
            /\ UNCHANGED <<dN, dOff>>
       ELSE /\ dOff' = HeaderLen(dBuf)
            /\ dpc' = "slice"
            /\ UNCHANGED <<dBuf, dN>>
    /\ UNCHANGED <<fanVars, sockVars, lisVars, codecVars, muVars, recvRest>>

\* fan.go, lines 198-202: the worker takes data.data[offset:n], which
\* panics when offset > n, writes it and puts the buffer back; a later
\* pool.Get() returns that buffer or a new one.
DgSlice ==
    /\ dpc = "slice"
    /\ IF dOff > dN
       THEN /\ dpc' = "panic"
            /\ UNCHANGED dBuf
       ELSE /\ dpc' = "recv"
            /\ dBuf' \in {dBuf, ZeroBuf}
    /\ UNCHANGED <<dN, dOff>>
    /\ UNCHANGED <<fanVars, sockVars, lisVars, codecVars, muVars, recvRest>>

RecvBufNext ==
    \/ \E d \in Datagrams : DgRead(d)
    \/ DgParse
    \/ DgSlice

RecvBufSpec == Init /\ [][RecvBufNext]_vars

\* C33: for every datagram the Receiver hands to a worker,
\* 0 <= offset <= end <= BufferSize, also for a datagram shorter than its
\* own address header, so the worker's slice buf[offset:end] is valid.
C33_OffsetWithinDatagram ==
    /\ dpc = "slice" => (0 <= dOff /\ dOff <= dN /\ dN <= BufferSize)
    /\ dpc # "panic"

\* ------------------------------------------- the association's replies

\* The Receiver, lines 240-257, for a datagram of client c that parses and
\* names the destination id: localAddr = sender (line 252), and the fan-in
\* pool opens or reuses the flow to id.
ReplyDatagram(c, id) ==
    /\ localAddr' = c
    /\ addressedBy' = [addressedBy EXCEPT ![id] = @ \cup {c}]
    /\ UNCHANGED delivered
    /\ UNCHANGED <<fanVars, sockVars, lisVars, codecVars, muVars, replyRest>>

\* The Sender, lines 259-271, for data the peer id sent back: the record is
\* written with udpConn.WriteToUDP(..., localAddr).
ReplySend(id) ==
    /\ addressedBy[id] # {}
    /\ delivered' = delivered \cup {<<id, localAddr>>}
    /\ UNCHANGED <<localAddr, addressedBy>>
    /\ UNCHANGED <<fanVars, sockVars, lisVars, codecVars, muVars, replyRest>>

ReplyNext ==
    \/ \E c \in Clients, id \in IDs : ReplyDatagram(c, id)
    \/ \E id \in IDs : ReplySend(id)

ReplySpec == Init /\ [][ReplyNext]_vars

\* C35: data coming back from a remote peer is sent to a client address
\* that sent a datagram for that peer: a reply is never delivered to a
\* client address that did not address the peer.
C35_ReplyGoesToItsClient ==
    \A r \in delivered : r[2] \in addressedBy[r[1]]

\* ------------------------------------------------- the order of the locks
\* Every acquisition and release of channelmap.mu and of a wrapper's mutex is
\* a step, so that a task can be preempted while it holds or awaits a lock.
\* A task runs one sequence of operations, chosen when it starts among those
\* the code can take, and may run again.

\* channelmap.mu among the locks; wrapper w's mutex is lock w.
MapMu == 0

Lk(l) == [op |-> "Lock", on |-> l]

Ul(l) == [op |-> "Unlock", on |-> l]

RLk == [op |-> "RLock", on |-> MapMu]

RUl == [op |-> "RUnlock", on |-> MapMu]

\* isClosed, refreshActiveTimestamp, outdated: the wrapper's mutex alone.
isClosedOps(w) == <<Lk(w), Ul(w)>>

refreshOps(w) == <<Lk(w), Ul(w)>>

outdatedOps(w) == <<Lk(w), Ul(w)>>

\* A close that would also unregister the wrapper, under its mutex.
closeOps_Unregister(w) == <<Lk(w), Lk(MapMu), Ul(MapMu), Ul(w)>>

\* close: the wrapper's mutex, held across connection.Close().
closeOps(w) == <<Lk(w), Ul(w)>>

\* getChannel: the read lock, held across isClosed of the wrapper found
\* (w = 0: there is none).
getChannelOps(w) ==
    <<RLk>> \o (IF w = 0 THEN <<>> ELSE isClosedOps(w)) \o <<RUl>>

\* What the GC routine can find at a wrapper on a tick.
GcFinds == {"absent", "live", "closed", "outdated"}

\* One iteration of the tick's loop: isClosed, then outdated unless closed,
\* then close for a wrapper that is either.
gcVisitOps(w, f) ==
    CASE f = "absent" -> <<>>
      [] f = "live" -> isClosedOps(w) \o outdatedOps(w)
      [] f = "closed" -> isClosedOps(w) \o closeOps(w)
      [] f = "outdated" -> isClosedOps(w) \o outdatedOps(w) \o closeOps(w)

RECURSIVE gcLoopOps(_, _)
\* The loop over the map, wrapper w and those after it; f is what it finds.
gcLoopOps(w, f) ==
    IF w > MaxWorkers THEN <<>>
    ELSE gcVisitOps(w, f[w]) \o gcLoopOps(w + 1, f)

RECURSIVE gcCloseAllOps(_, _)
\* The loop after the context is done: close every wrapper in the map.
gcCloseAllOps(w, f) ==
    IF w > MaxWorkers THEN <<>>
    ELSE (IF f[w] = "absent" THEN <<>> ELSE closeOps(w))
         \o gcCloseAllOps(w + 1, f)

\* The runs of the GC routine: a tick, or the end of the context.
GcRuns ==
    {<<Lk(MapMu)>> \o gcLoopOps(1, f) \o <<Ul(MapMu)>> : f \in [Wrappers -> GcFinds]}
    \cup {<<Lk(MapMu)>> \o gcCloseAllOps(1, f) \o <<Ul(MapMu)>> :
              f \in [Wrappers -> {"absent", "live"}]}

\* The runs of a worker: lookupOrCreateChannel finds wrapper w open (getChannel
\* and a second isClosed), or creates wrapper v and stores it under the write
\* lock; then write refreshes the wrapper's timestamp.
WorkerRuns ==
    {getChannelOps(w) \o isClosedOps(w) \o refreshOps(w) : w \in Wrappers}
    \cup {getChannelOps(w) \o <<Lk(MapMu), Ul(MapMu)>> \o refreshOps(v) :
              w \in {0} \cup Wrappers, v \in Wrappers}
    \cup {getChannelOps(w) : w \in {0} \cup Wrappers}

\* The runs of wrapper w's copy task: a Write of the channelSender, or the
\* close after io.Copy has returned.
CopyRuns(w) == {refreshOps(w), closeOps(w)}

\* The run of wrapper w's context waiter.
WaitRuns(w) == {closeOps(w)}

Runs(t) ==
    CASE t[1] = "gc" -> GcRuns
      [] t[1] = "worker" -> WorkerRuns
      [] t[1] = "copy" -> CopyRuns(t[2])
      [] t[1] = "wait" -> WaitRuns(t[2])

\* The operation task t is at.
NextOp(t) == lpath[t][lpc[t]]

Running(t) == lpc[t] > 0

\* The locks task t holds.
HoldsMap(t) == mapW = t \/ t \in mapR

HoldsWrapper(t) == \E w \in Wrappers : wmu[w] = t

\* Task t wants a lock it cannot have now.
Blocked(t) ==
    /\ Running(t)
    /\ \/ /\ NextOp(t) = Lk(MapMu)
          /\ (mapW # NoTask \/ mapR # {})
       \/ /\ NextOp(t) = RLk
          /\ (mapW # NoTask \/ mapPend # {})
       \/ /\ NextOp(t).op = "Lock" /\ NextOp(t).on # MapMu
          /\ wmu[NextOp(t).on] # NoTask

\* The tasks that must move before t can.
Blockers(t) ==
    IF NextOp(t).on = MapMu
    THEN ({mapW} \cup mapR \cup (IF NextOp(t) = RLk THEN mapPend ELSE {}))
             \ {NoTask, t}
    ELSE {wmu[NextOp(t).on]} \ {NoTask}

\* After its operation, t is at the next one, or has finished its run.
Advanced(t) ==
    IF lpc[t] = Len(lpath[t])
    THEN /\ lpc' = [lpc EXCEPT ![t] = 0]
         /\ lpath' = [lpath EXCEPT ![t] = <<>>]
    ELSE /\ lpc' = [lpc EXCEPT ![t] = lpc[t] + 1]
         /\ UNCHANGED lpath

\* A task starts a run.
LockStart(t) ==
    /\ ~Running(t)
    /\ \E r \in Runs(t) :
          /\ lpath' = [lpath EXCEPT ![t] = r]
          /\ lpc' = [lpc EXCEPT ![t] = 1]
    /\ UNCHANGED <<mapW, mapR, mapPend, wmu>>
    /\ UNCHANGED <<fanVars, sockVars, lisVars, codecVars, muVars, ordRest>>

\* channelmap.mu.Lock() finds the lock taken: the caller waits, and readers
\* that arrive from now on wait behind it.
LockWait(t) ==
    /\ Running(t) /\ NextOp(t) = Lk(MapMu)
    /\ Blocked(t) /\ t \notin mapPend
    /\ mapPend' = mapPend \cup {t}
    /\ UNCHANGED <<lpath, lpc, mapW, mapR, wmu>>
    /\ UNCHANGED <<fanVars, sockVars, lisVars, codecVars, muVars, ordRest>>

\* A task takes the lock it is at.
LockAcquire(t) ==
    /\ Running(t) /\ ~Blocked(t)
    /\ NextOp(t).op \in {"Lock", "RLock"}
    /\ IF NextOp(t) = Lk(MapMu)
       THEN /\ mapW' = t
            /\ mapPend' = mapPend \ {t}
            /\ UNCHANGED <<mapR, wmu>>
       ELSE IF NextOp(t) = RLk
       THEN /\ mapR' = mapR \cup {t}
            /\ UNCHANGED <<mapW, mapPend, wmu>>
       ELSE /\ wmu' = [wmu EXCEPT ![NextOp(t).on] = t]
            /\ UNCHANGED <<mapW, mapR, mapPend>>
    /\ Advanced(t)
    /\ UNCHANGED <<fanVars, sockVars, lisVars, codecVars, muVars, ordRest>>

\* A task releases the lock it is at.
LockRelease(t) ==
    /\ Running(t)
    /\ NextOp(t).op \in {"Unlock", "RUnlock"}
    /\ IF NextOp(t) = Ul(MapMu)
       THEN /\ mapW' = NoTask
            /\ UNCHANGED <<mapR, wmu>>
       ELSE IF NextOp(t) = RUl
       THEN /\ mapR' = mapR \ {t}
            /\ UNCHANGED <<mapW, wmu>>
       ELSE /\ wmu' = [wmu EXCEPT ![NextOp(t).on] = NoTask]
            /\ UNCHANGED <<mapW, mapR>>
    /\ UNCHANGED mapPend
    /\ Advanced(t)
    /\ UNCHANGED <<fanVars, sockVars, lisVars, codecVars, muVars, ordRest>>

LockOrderNext ==
    \/ \E t \in LockTasks : LockStart(t)
    \/ \E t \in LockTasks : LockWait(t)
    \/ \E t \in LockTasks : LockAcquire(t)
    \/ \E t \in LockTasks : LockRelease(t)

LockOrderSpec == Init /\ [][LockOrderNext]_vars

\* A set of tasks each of which waits for another of the set.
Deadlocked ==
    \E S \in (SUBSET LockTasks) \ {{}} :
        \A t \in S : Blocked(t) /\ Blockers(t) \cap S # {}

\* C36: the pool cannot deadlock: a task that holds a wrapper's mutex is never
\* at an acquisition of the map's lock (the order is the map's lock, then a
\* wrapper's mutex), no task holds two wrappers' mutexes, and no set of tasks
\* wait for each other.
C36_LockOrderNoDeadlock ==
    /\ \A t \in LockTasks :
          (Running(t) /\ HoldsWrapper(t)) =>
              /\ NextOp(t).on # MapMu
              /\ NextOp(t).op = "Unlock"
    /\ ~Deadlocked

\* The GC routine holds the map's lock and waits for the mutex of a wrapper
\* that its copy task holds, while the worker waits for the map's lock.
C36_Witness ==
    /\ mapW = <<"gc", 0>>
    /\ Blocked(<<"gc", 0>>)
    /\ \E w \in Wrappers : wmu[w] = <<"copy", w>> /\ NextOp(<<"gc", 0>>) = Lk(w)
    /\ Blocked(<<"worker", 0>>)

\* ------------------------------------------------- main and its services
\* main starts its services as goroutines, each of which sends on exitSig
\* when its service function returns; main waits in a select for exitSig or
\* an OS signal, closes the relay server and returns, which runs the deferred
\* close(exitSig); the process ends when main has returned.

\* The capacity of exitSig.
ExitCap == 1

\* Service i's function returns: with an error at any time, or, for the
\* relay, because relayServer.Close() has ended ServeURL.
ServiceExit(i) ==
    /\ mainPc # "exited"
    /\ svcPc[i] = "run"
    /\ svcPc' = [svcPc EXCEPT ![i] = "send"]
    /\ UNCHANGED <<mainPc, exitLen, exitClosed, relayClosed>>
    /\ UNCHANGED <<fanVars, sockVars, lisVars, codecVars, muVars, supRest>>

\* What exitSig <- struct{}{} does to its sender: a send on a closed channel
\* panics, a send on a full one blocks, any other is buffered.
SendOutcome ==
    IF exitClosed THEN "panic"
    ELSE IF exitLen < ExitCap THEN "sent" ELSE "blocked"

\* exitSig <- struct{}{} in service i's goroutine; a sender that was blocked
\* tries again when the channel has changed.
ServiceSend(i) ==
    /\ mainPc # "exited"
    /\ svcPc[i] \in {"send", "blocked"}
    /\ svcPc[i] = "blocked" => SendOutcome # "blocked"
    /\ svcPc' = [svcPc EXCEPT ![i] = SendOutcome]
    /\ exitLen' = IF SendOutcome = "sent" THEN exitLen + 1 ELSE exitLen
    /\ UNCHANGED <<mainPc, exitClosed, relayClosed>>
    /\ UNCHANGED <<fanVars, sockVars, lisVars, codecVars, muVars, supRest>>

\* main's select: case <-exitSig.
MainRecv ==
    /\ mainPc = "select"
    /\ exitLen > 0
    /\ exitLen' = exitLen - 1
    /\ mainPc' = "closeRelay"
    /\ UNCHANGED <<svcPc, exitClosed, relayClosed>>
    /\ UNCHANGED <<fanVars, sockVars, lisVars, codecVars, muVars, supRest>>

\* main's select: case res := <-osSignals.
MainSignal ==
    /\ mainPc = "select"
    /\ mainPc' = "closeRelay"
    /\ UNCHANGED <<svcPc, exitLen, exitClosed, relayClosed>>
    /\ UNCHANGED <<fanVars, sockVars, lisVars, codecVars, muVars, supRest>>

\* relayServer.Close().
MainCloseRelay ==
    /\ mainPc = "closeRelay"
    /\ relayClosed' = TRUE
    /\ mainPc' = "deferred"
    /\ UNCHANGED <<svcPc, exitLen, exitClosed>>
    /\ UNCHANGED <<fanVars, sockVars, lisVars, codecVars, muVars, supRest>>

\* main returns: the deferred close(exitSig) runs.
MainDeferredClose ==
    /\ mainPc = "deferred"
    /\ exitClosed' = TRUE
    /\ mainPc' = "closed"
    /\ UNCHANGED <<svcPc, exitLen, relayClosed>>
    /\ UNCHANGED <<fanVars, sockVars, lisVars, codecVars, muVars, supRest>>

\* The process ends, and its goroutines with it.
MainExit ==
    /\ mainPc = "closed"
    /\ mainPc' = "exited"
    /\ UNCHANGED <<svcPc, exitLen, exitClosed, relayClosed>>
    /\ UNCHANGED <<fanVars, sockVars, lisVars, codecVars, muVars, supRest>>

SupervisorNext ==
    \/ \E i \in Services : ServiceExit(i)
    \/ \E i \in Services : ServiceSend(i)
    \/ MainRecv
    \/ MainSignal
    \/ MainCloseRelay
    \/ MainDeferredClose
    \/ MainExit

SupervisorSpec == Init /\ [][SupervisorNext]_vars

\* C38: no service sends on exitSig after main has closed it: every send
\* happens before close(exitSig) or not at all, so no service's send finds
\* the channel closed.
C38_NoSendAfterClose ==
    \A i \in Services : svcPc[i] # "panic"

\* ------------------------------------------------------- trackConn.Close
\* Several goroutines call Close on one trackConn; every statement of Close
\* is a step.

\* c.mu.Lock() without the mutex: every caller enters at once.
TcCanLock_NoMutex == TRUE

\* c.mu.Lock() returns when no caller holds the mutex.
TcCanLock == tcMu = 0

\* A goroutine calls Close: c.mu.Lock().
TcLock(c) ==
    /\ tcPc[c] = "idle"
    /\ TcCanLock
    /\ tcMu' = c
    /\ tcPc' = [tcPc EXCEPT ![c] = "check"]
    /\ UNCHANGED <<tcIsClosed, tcFinish, tcConnClose, tcRet>>
    /\ UNCHANGED <<fanVars, sockVars, lisVars, codecVars, muVars, tcRest>>

\* if c.isClosed { return nil }
TcCheck(c) ==
    /\ tcPc[c] = "check"
    /\ IF tcIsClosed
       THEN /\ tcRet' = [tcRet EXCEPT ![c] = "nil"]
            /\ tcPc' = [tcPc EXCEPT ![c] = "unlock"]
       ELSE /\ tcPc' = [tcPc EXCEPT ![c] = "set"]
            /\ UNCHANGED tcRet
    /\ UNCHANGED <<tcMu, tcIsClosed, tcFinish, tcConnClose>>
    /\ UNCHANGED <<fanVars, sockVars, lisVars, codecVars, muVars, tcRest>>

\* c.isClosed = true
TcSet(c) ==
    /\ tcPc[c] = "set"
    /\ tcIsClosed' = TRUE
    /\ tcPc' = [tcPc EXCEPT ![c] = "finish"]
    /\ UNCHANGED <<tcMu, tcFinish, tcConnClose, tcRet>>
    /\ UNCHANGED <<fanVars, sockVars, lisVars, codecVars, muVars, tcRest>>

\* c.tracker.Finish()
TcFinish(c) ==
    /\ tcPc[c] = "finish"
    /\ tcFinish' = tcFinish + 1
    /\ tcPc' = [tcPc EXCEPT ![c] = "close"]
    /\ UNCHANGED <<tcMu, tcIsClosed, tcConnClose, tcRet>>
    /\ UNCHANGED <<fanVars, sockVars, lisVars, codecVars, muVars, tcRest>>

\* return c.Conn.Close(): its result, nil or an error, is the caller's.
TcConnClose(c) ==
    /\ tcPc[c] = "close"
    /\ tcConnClose' = tcConnClose + 1
    /\ \E r \in {"conn_nil", "conn_err"} : tcRet' = [tcRet EXCEPT ![c] = r]
    /\ tcPc' = [tcPc EXCEPT ![c] = "unlock"]
    /\ UNCHANGED <<tcMu, tcIsClosed, tcFinish>>
    /\ UNCHANGED <<fanVars, sockVars, lisVars, codecVars, muVars, tcRest>>

\* The deferred c.mu.Unlock(); Close returns.
TcUnlock(c) ==
    /\ tcPc[c] = "unlock"
    /\ tcMu' = IF tcMu = c THEN 0 ELSE tcMu
    /\ tcPc' = [tcPc EXCEPT ![c] = "returned"]
    /\ UNCHANGED <<tcIsClosed, tcFinish, tcConnClose, tcRet>>
    /\ UNCHANGED <<fanVars, sockVars, lisVars, codecVars, muVars, tcRest>>

\* The goroutine, or another one in its place, calls Close again.
TcAgain(c) ==
    /\ tcPc[c] = "returned"
    /\ tcPc' = [tcPc EXCEPT ![c] = "idle"]
    /\ UNCHANGED <<tcMu, tcIsClosed, tcFinish, tcConnClose, tcRet>>
    /\ UNCHANGED <<fanVars, sockVars, lisVars, codecVars, muVars, tcRest>>

TrackConnNext ==
    \/ \E c \in Closers : TcLock(c)
    \/ \E c \in Closers : TcCheck(c)
    \/ \E c \in Closers : TcSet(c)
    \/ \E c \in Closers : TcFinish(c)
    \/ \E c \in Closers : TcConnClose(c)
    \/ \E c \in Closers : TcUnlock(c)
    \/ \E c \in Closers : TcAgain(c)

TrackConnSpec == Init /\ [][TrackConnNext]_vars

\* C39: trackConn.Close is idempotent under concurrent callers: the tracker's
\* Finish and the connection's Close are each invoked at most once, by the one
\* call that found the connection open, and every call that finds it closed
\* returns nil and invokes neither.
C39_CloseIdempotent ==
    /\ [](tcFinish <= 1 /\ tcConnClose <= 1)
    /\ [][\A c \in Closers :
            (tcPc[c] = "check" /\ tcIsClosed /\ tcPc'[c] # "check") =>
                /\ tcRet'[c] = "nil"
                /\ tcPc'[c] = "unlock"
                /\ UNCHANGED <<tcFinish, tcConnClose>>]_vars

\* Every caller has returned: one has closed the connection, the others got
\* nil, and Finish and Close ran once.
C39_Witness ==
    /\ \A c \in Closers : tcPc[c] = "returned"
    /\ \E c \in Closers :
          /\ tcRet[c] \in {"conn_nil", "conn_err"}
          /\ \A d \in Closers \ {c} : tcRet[d] = "nil"
    /\ tcFinish = 1
    /\ tcConnClose = 1

====
